---------------------------- MODULE Spec2Model ----------------------------
(***************************************************************************)
(* Model of the PACT API testbed core: the Token Service and the Stub      *)
(* Callback Server of src/stub.js and the Test Orchestrator                *)
(* (PathfinderValidator.validate) of src/validator.js.                     *)
(*                                                                         *)
(* Time is counted in milliseconds, as new Date().getTime() returns it.    *)
(* JavaScript null and undefined are both written NULL: the code tests     *)
(* them with "== null", which does not tell them apart.                    *)
(***************************************************************************)
EXTENDS Integers, Sequences, FiniteSets, TLC

VARIABLES
    now,        \* the wall clock, new Date().getTime()
    ticks,      \* how many times the clock has advanced
    lastToken,  \* the last token generateJwtToken returned (<<>>: none yet)
    issuedAt,   \* the clock value at which lastToken was generated
    presented,  \* the token last handed to verifyJwtToken directly
    verdict,    \* what verifyJwtToken did with it: "none", "ok", "InvalidToken"
    setting,    \* the StubPathfinderServerSetting the stub was constructed with
    reqs,       \* the inbound requests of the stub server, one per connection
    crashed,    \* an exception escaped every handler: the process is gone
    callerSetting, \* the PathfinderValidatorSetting validate is called with
    val         \* the run of PathfinderValidator.validate

tokenVars == <<now, ticks, lastToken, issuedAt, presented, verdict>>
stubVars == <<setting, reqs, crashed>>
valVars == <<callerSetting, val>>
vars == <<now, ticks, lastToken, issuedAt, presented, verdict, setting, reqs, crashed,
          callerSetting, val>>

NULL == "null"

(***************************************************************************)
(* Bounds of the model.                                                    *)
(***************************************************************************)
MaxTicks == 2
MaxInFlight == 1
MaxRecords == 2
MaxConcurrent == 2

(***************************************************************************)
(* Program constants.                                                      *)
(***************************************************************************)
SECRET == "GrSRLR3p"
MsPerSec == 1000
TokenLifetime == 3600

(***************************************************************************)
(* Token Service.                                                          *)
(*                                                                         *)
(* A token is a sequence of segments, the parts between the dots.  A       *)
(* segment is a record with a kind k:                                      *)
(*   "json": base64 text of a JSON text of the object obj.  form tells the *)
(*           text itself: "canon" is what                                  *)
(*           Buffer.from(JSON.stringify(obj)).toString("base64") without   *)
(*           its padding gives; "alt" is another text that decodes and     *)
(*           parses to the same object (padding kept, base64url alphabet,  *)
(*           white space in the JSON text);                                *)
(*   "mac":  the base64 text of the HMAC-SHA256 of msg under key.  The     *)
(*           keyed hash is taken to be collision free: two macs are equal  *)
(*           exactly when key and message are;                             *)
(*   "junk": text that is no base64 of a JSON text.                        *)
(***************************************************************************)
Junk == [k |-> "junk"]

\* Buffer.from(JSON.stringify(obj)).toString("base64").replace(/=+$/, "")
Encode(obj) == [k |-> "json", form |-> "canon", obj |-> obj]

\* JSON.parse(Buffer.from(segment, "base64").toString()) throws on these
ParseThrows(segment) == segment.k # "json"

\* JSON.parse(Buffer.from(segment, "base64").toString())
Decode(segment) == segment.obj

\* createHmac("sha256", key).update(msg).digest("base64").replace(/=+$/, "")
Hmac(key, msg) == [k |-> "mac", key |-> key, msg |-> msg]

\* object.name, undefined (NULL) when the object has no such property
Field(object, name) == IF name \in DOMAIN object THEN object[name] ELSE NULL

\* typeof claim[name] == "number".  A claim object carries for iss and exp a
\* flag (issNum, expNum) telling whether the JSON value is a number.
IsNumber(claim, name) ==
    CASE name = "iss" -> "issNum" \in DOMAIN claim /\ claim.issNum
      [] name = "exp" -> "expNum" \in DOMAIN claim /\ claim.expNum
      [] OTHER -> FALSE

JwtHeader == [typ |-> "JWT", alg |-> "HS256"]

Claim(iss, exp) == [issNum |-> TRUE, iss |-> iss, expNum |-> TRUE, exp |-> exp]

\* Math.floor(new Date().getTime()/1000)
NowSeconds(t) == t \div MsPerSec

\* now + 60*60
ExpiryOf(nowSec) == nowSec + TokenLifetime

generateJwtToken(t) ==
    LET header == JwtHeader
        nowSec == NowSeconds(t)
        claim  == Claim(nowSec, ExpiryOf(nowSec))
        token  == <<Encode(header), Encode(claim)>>
    IN  Append(token, Hmac(SECRET, token))

\* header.typ != "JWT" || header.alg != "HS256"
BadHeader(header) == Field(header, "typ") # "JWT" \/ Field(header, "alg") # "HS256"

\* typeof claim.iss != "number" || typeof claim.exp != "number"
BadClaimTypes(claim) == ~IsNumber(claim, "iss") \/ ~IsNumber(claim, "exp")

\* Mutant of Expired: the token is refused at the very instant of its expiry
ExpiredAtExpiry(exp, t) == exp * MsPerSec <= t

\* claim.exp < new Date().getTime()/1000, the division being exact
Expired(exp, t) == exp * MsPerSec < t

\* Mutant of BadCertificate: the signature is not compared
CertificateUnchecked(header, claim, certificate) == FALSE

\* _certificate != certificate, _certificate recomputed over the re-encoded
\* header and claim
BadCertificate(header, claim, certificate) ==
    Hmac(SECRET, <<Encode(header), Encode(claim)>>) # certificate

\* TRUE when verifyJwtToken returns, FALSE when it throws
verifyJwtToken(token, t) ==
    IF Len(token) # 3 THEN FALSE
    ELSE IF ParseThrows(token[1]) \/ ParseThrows(token[2]) THEN FALSE
    ELSE LET header == Decode(token[1])
             claim == Decode(token[2])
             certificate == token[3]
         IN  IF BadHeader(header) THEN FALSE
             ELSE IF BadClaimTypes(claim) THEN FALSE
             ELSE IF Expired(claim.exp, t) THEN FALSE
             ELSE ~BadCertificate(header, claim, certificate)


(***************************************************************************)
(* Tokens a client may present: the genuine token and what can be made of  *)
(* it by cutting, re-encoding, altering and re-signing, and the dot-free   *)
(* random string of the "Illegal access token" test case.                  *)
(***************************************************************************)
NoToken == <<>>

AltForm(segment) == [segment EXCEPT !.form = "alt"]

Signed(key, header, claim) ==
    LET token == <<Encode(header), Encode(claim)>>
    IN  Append(token, Hmac(key, token))

TokensFrom(token) ==
    LET h == token[1]
        c == token[2]
        s == token[3]
        claim == Decode(c)
        later == [claim EXCEPT !.exp = claim.exp + TokenLifetime]
    IN  { token,
          <<h, c>>,
          <<h, c, s, s>>,
          <<AltForm(h), c, s>>,
          <<h, AltForm(c), s>>,
          <<h, Encode(later), s>>,
          <<h, c, Hmac("guess", <<h, c>>)>>,
          <<h, c, Junk>>,
          <<Junk, c, s>>,
          <<h, Junk, s>>,
          Signed("guess", JwtHeader, later),
          Signed(SECRET, JwtHeader, later),
          Signed(SECRET, [typ |-> "JWT", alg |-> "none"], claim),
          Signed(SECRET, [typ |-> "JOSE", alg |-> "HS256"], claim),
          Signed(SECRET, JwtHeader, [claim EXCEPT !.expNum = FALSE]),
          Signed(SECRET, JwtHeader, [claim EXCEPT !.issNum = FALSE]) }

RandomToken == <<Junk>>

PresentableTokens ==
    {RandomToken} \cup (IF lastToken = NoToken THEN {} ELSE TokensFrom(lastToken))

(***************************************************************************)
(* The clock.  It advances by a millisecond, by just under a second or by  *)
(* the lifetime of a token, which reaches the instants on both sides of a  *)
(* second boundary and of an expiry.                                       *)
(***************************************************************************)
TickSteps == {1, MsPerSec - 1, TokenLifetime * MsPerSec}

TokenInit ==
    /\ now = 0
    /\ ticks = 0
    /\ lastToken = NoToken
    /\ issuedAt = 0
    /\ presented = NoToken
    /\ verdict = "none"

ClockTick(d) ==
    /\ ticks < MaxTicks
    /\ now' = now + d
    /\ ticks' = ticks + 1

(***************************************************************************)
(* The Token Service used on its own: issue(), verify(token).              *)
(***************************************************************************)
TokTick ==
    /\ \E d \in TickSteps : ClockTick(d)
    /\ verdict' = "none"
    /\ UNCHANGED <<lastToken, issuedAt, presented, stubVars, valVars>>

TokIssue ==
    /\ lastToken' = generateJwtToken(now)
    /\ issuedAt' = now
    /\ verdict' = "none"
    /\ UNCHANGED <<now, ticks, presented, stubVars, valVars>>

TokPresent ==
    /\ \E token \in PresentableTokens : presented' = token
    /\ verdict' = "none"
    /\ UNCHANGED <<now, ticks, lastToken, issuedAt, stubVars, valVars>>

TokVerify ==
    /\ presented # NoToken
    /\ verdict' = IF verifyJwtToken(presented, now) THEN "ok" ELSE "InvalidToken"
    /\ UNCHANGED <<now, ticks, lastToken, issuedAt, presented, stubVars, valVars>>


(***************************************************************************)
(* Stub Callback Server: what a request and an event are made of.          *)
(*                                                                         *)
(* A URL is the sequence of its path segments.  startsWith and the UUID    *)
(* pattern are membership of a segment in the sets of the texts that have  *)
(* the prefix or the shape.                                                *)
(***************************************************************************)
Published == "org.wbcsd.pathfinder.ProductFootprint.Published.v1"
RequestCreated == "org.wbcsd.pathfinder.ProductFootprintRequest.Created.v1"
RequestFulfilled == "org.wbcsd.pathfinder.ProductFootprintRequest.Fulfilled.v1"
RequestRejected == "org.wbcsd.pathfinder.ProductFootprintRequest.Rejected.v1"

ErrorCodes ==
    {"AccessDenied", "BadRequest", "NoSuchFootprint", "NotImplemented",
     "TokenExpired", "InternalError"}

CloudEventsJson == "application/cloudevents+json; charset=UTF-8"
FormUrlEncoded == "application/x-www-form-urlencoded"

\* contentType.startsWith("application/json")
IsJsonType(contentType) ==
    contentType \in {"application/json", "application/json; charset=UTF-8"}

\* contentType.startsWith("application/cloudevents+json")
IsCloudEventsType(contentType) ==
    contentType \in {"application/cloudevents+json", CloudEventsJson}

UuidShaped == {"3fae5c0a-0000-4000-8000-000000000001"}

\* request.url == "/auth/token"
IsAuthTokenUrl(url) == url = <<"auth", "token">>

\* request.url.startsWith("/2/footprints")
IsFootprintsUrl(url) ==
    /\ Len(url) >= 2
    /\ url[1] = "2"
    /\ url[2] \in {"footprints", "footprints?limit=1", "footprintsX"}

\* request.url == "/2/events"
IsEventsUrl(url) == url = <<"2", "events">>

\* /.+\/[0-9a-fA-F]{8}-...-[0-9a-fA-F]{12}$/.test(request.url)
EndsInUuid(url) == Len(url) >= 2 /\ url[Len(url)] \in UuidShaped

(***************************************************************************)
(* The Authorization header: scheme is the text before the first blank     *)
(* ("" when the header is absent), cred the colon-separated parts of the   *)
(* base64-decoded rest, token the dot-separated rest.                      *)
(***************************************************************************)
NoAuthorization == [scheme |-> "", cred |-> <<>>, token |-> NoToken]
Basic(cred) == [scheme |-> "Basic", cred |-> cred, token |-> NoToken]
Bearer(token) == [scheme |-> "Bearer", cred |-> <<>>, token |-> token]

(***************************************************************************)
(* The body: present when the stream delivered a chunk; text tells whether *)
(* its bytes are a JSON text, and kind what they parse to: an object with  *)
(* the properties of ev, a scalar (number, string, true) or null.          *)
(***************************************************************************)
NoError == [isNull |-> TRUE, code |-> NULL, message |-> NULL]
NoFragment == [key \in {} |-> ""]

NoData ==
    [isNull |-> TRUE, pfNull |-> TRUE, pf |-> NoFragment, requestEventId |-> NULL,
     pfsNull |-> TRUE, pfs |-> <<>>, pfsArray |-> TRUE, error |-> NoError]

EmptyData == [NoData EXCEPT !.isNull = FALSE]

NoEvent == [type |-> NULL, id |-> NULL, source |-> NULL, time |-> NULL, data |-> NoData]

NoBody == [present |-> FALSE, text |-> "", kind |-> "", ev |-> NoEvent]
TextBody == [present |-> TRUE, text |-> "notjson", kind |-> "", ev |-> NoEvent]
ScalarBody == [present |-> TRUE, text |-> "json", kind |-> "scalar", ev |-> NoEvent]
NullBody == [present |-> TRUE, text |-> "json", kind |-> "null", ev |-> NoEvent]
EventBody(ev) == [present |-> TRUE, text |-> "json", kind |-> "object", ev |-> ev]

NoRequest ==
    [method |-> "", url |-> <<>>, authorization |-> NoAuthorization,
     contentType |-> NULL, body |-> NoBody]

(***************************************************************************)
(* One inbound request and what the server did for it.                     *)
(*   state   "free", "body" (waiting for the end of the request stream),   *)
(*           "authCall", "eventsCall" (waiting for the reply to the        *)
(*           outbound call), "done"                                        *)
(*   at      the clock when the request arrived                            *)
(*   stream  the request stream: "open", ended ("end") or failed ("error") *)
(*   replies the replies to the outbound calls, in order                   *)
(*   status, code, token   the response written: 0 when none was           *)
(*   out     the outbound calls made, in order                             *)
(*   emits   the events emitted to the subscribers, in order               *)
(*   payload what the data event carried                                   *)
(*   sent    the JSON body of the response, for the footprint routes       *)
(*   threw   the exception that escaped the handlers, "" when none did     *)
(***************************************************************************)
NothingSent == [shape |-> "none", data |-> <<>>]

FreeSlot ==
    [state |-> "free", in |-> NoRequest, at |-> 0, stream |-> "open",
     status |-> 0, code |-> "", token |-> NoToken,
     out |-> <<>>, replies |-> <<>>, emits |-> <<>>, payload |-> NoBody,
     sent |-> NothingSent, threw |-> ""]

(***************************************************************************)
(* Writing a response.  response.writeHead throws ERR_HTTP_HEADERS_SENT    *)
(* when the headers of this response were written before (Node.js 18, the  *)
(* version the README asks for).                                           *)
(***************************************************************************)
WriteHead(slot, status, code) ==
    IF slot.status # 0
    THEN [slot EXCEPT !.threw = "ERR_HTTP_HEADERS_SENT"]
    ELSE [slot EXCEPT !.status = status, !.code = code]

handleSuccess(slot) == WriteHead(slot, 200, "")
handleJson(slot) == WriteHead(slot, 200, "")
handleNotFoundError(slot) == WriteHead(slot, 404, "")
handleBadRequestError(slot) == WriteHead(slot, 400, "BadRequest")
handleForbiddenError(slot) == WriteHead(slot, 403, "AccessDenied")
\* Mutant of handleUnauthorizedError: it answers as handleForbiddenError does
UnauthorizedAsForbidden(slot) == WriteHead(slot, 403, "AccessDenied")

handleUnauthorizedError(slot) == WriteHead(slot, 401, "")

\* this.emit(kind, ...) of the EventEmitter the stub server extends: the
\* listeners are those validate attached; an "error" event nobody listens to
\* is thrown by emit
Emit(slot, kind) ==
    IF kind = "error" /\ "error" \notin val.listeners
    THEN [slot EXCEPT !.emits = Append(@, kind), !.threw = "ERR_UNHANDLED_ERROR"]
    ELSE [slot EXCEPT !.emits = Append(@, kind)]

Finish(slot) == [slot EXCEPT !.state = "done"]

\* An error handler of the request listener: respond(slot), then
\* this.emit("error", error), which is not reached when the response throws.
Catch(responded) ==
    Finish(IF responded.threw # "" THEN responded ELSE Emit(responded, "error"))

\* The "data" listener of validate: footprints.forEach(...) on the data.pfs of
\* a RequestFulfilled event throws a TypeError when data.pfs is no array
DataListenerThrows(body) ==
    /\ "data" \in val.listeners
    /\ body.ev.type = "org.wbcsd.pathfinder.ProductFootprintRequest.Fulfilled.v1"
    /\ ~body.ev.data.pfsArray

\* .then(requestBody => { this.emit("data", requestBody); }), requestBody what
\* handleEvents returned; the catch that follows it runs when a listener throws
EmitData(slot) ==
    LET emitted == [Emit(slot, "data") EXCEPT !.payload = slot.in.body]
    IN  IF DataListenerThrows(slot.in.body)
        THEN Catch(handleBadRequestError(emitted))
        ELSE emitted


(***************************************************************************)
(* Stub Callback Server: the handlers.                                     *)
(***************************************************************************)

\* handleAuthenticate up to its await: TRUE when no check throws
BasicAccepted(authorization) ==
    /\ authorization.scheme # ""
    /\ authorization.scheme = "Basic"
    /\ Len(authorization.cred) = 2

\* Mutant of handleAuthorization: the token is not verified
SchemeOnly(request, t) ==
    /\ request.authorization.scheme # ""
    /\ request.authorization.scheme = "Bearer"

\* TRUE when handleAuthorization returns, FALSE when it throws
handleAuthorization(request, t) ==
    /\ request.authorization.scheme # ""
    /\ request.authorization.scheme = "Bearer"
    /\ verifyJwtToken(request.authorization.token, t)

\* retrieveRequest: JSON.parse throws inside the "end" listener; no promise
\* is rejected by it and nothing catches it
RetrieveThrows(request) ==
    /\ request.body.present
    /\ request.contentType # NULL
    /\ IsJsonType(request.contentType) \/ IsCloudEventsType(request.contentType)
    /\ request.body.text = "notjson"

\* What retrieveRequest resolves to: undefined, the raw Buffer, or the parsed
\* value ("object", "scalar", "null")
RetrievedKind(request) ==
    IF ~request.body.present THEN "undefined"
    ELSE IF /\ request.contentType # NULL
            /\ IsJsonType(request.contentType) \/ IsCloudEventsType(request.contentType)
         THEN request.body.kind
         ELSE "buffer"

\* requestBody[name]
Prop(request, name) ==
    IF RetrievedKind(request) = "object" THEN request.body.ev[name] ELSE NULL

\* Mutant of EnvelopeError: the value of type is not checked
EnvelopeErrorAnyType(request) ==
    IF RetrievedKind(request) \in {"undefined", "null", "scalar"}
    THEN "Invalid request."
    ELSE IF request.contentType = NULL
    THEN "Invalid request."
    ELSE IF ~IsCloudEventsType(request.contentType)
    THEN "The Content-Type of the request is invalid."
    ELSE IF Prop(request, "type") = NULL
    THEN "The type of the request is invalid."
    ELSE IF Prop(request, "id") = NULL
    THEN "The id of the request is invalid."
    ELSE IF Prop(request, "source") = NULL
    THEN "The source of the request is invalid."
    ELSE ""

\* The envelope checks of handleEvents: the message thrown, "" when none is
EnvelopeError(request) ==
    IF RetrievedKind(request) \in {"undefined", "null", "scalar"}
    THEN "Invalid request."
    ELSE IF request.contentType = NULL
    THEN "Invalid request."
    ELSE IF ~IsCloudEventsType(request.contentType)
    THEN "The Content-Type of the request is invalid."
    ELSE IF Prop(request, "type") = NULL
    THEN "The type of the request is invalid."
    ELSE IF Prop(request, "type") \notin
            {Published, RequestCreated, RequestFulfilled, RequestRejected}
    THEN "The value of the type property is invalid."
    ELSE IF Prop(request, "id") = NULL
    THEN "The id of the request is invalid."
    ELSE IF Prop(request, "source") = NULL
    THEN "The source of the request is invalid."
    ELSE ""

\* The checks of the RequestCreated branch
CreatedError(ev) ==
    IF ev.id = NULL THEN "The request body does not contain the id."
    ELSE IF ev.data.isNull THEN "The request body does not contain the data."
    ELSE IF ev.data.pfNull THEN "The request body does not contain the data.pf."
    ELSE ""

\* Mutant of FulfilledError: an empty data.pfs is let through
FulfilledErrorAllowsEmpty(ev) ==
    IF ev.data.isNull THEN "The request body does not contain the data."
    ELSE IF ev.data.requestEventId = NULL
    THEN "The request body does not contain the data.requestEventId."
    ELSE IF ev.data.pfsNull THEN "The request body does not contain the data.pfs."
    ELSE ""

\* The checks of the RequestFulfilled branch
FulfilledError(ev) ==
    IF ev.data.isNull THEN "The request body does not contain the data."
    ELSE IF ev.data.requestEventId = NULL
    THEN "The request body does not contain the data.requestEventId."
    ELSE IF ev.data.pfsNull THEN "The request body does not contain the data.pfs."
    ELSE IF Len(ev.data.pfs) = 0 THEN "The data.pfs in the request is empty."
    ELSE ""

\* Mutant of RejectedError: the value of data.error.code is not checked
RejectedErrorAnyCode(ev) ==
    IF ev.data.isNull THEN "The request body does not contain the data."
    ELSE IF ev.data.requestEventId = NULL
    THEN "The request body does not contain the data.requestEventId."
    ELSE IF ev.data.error.isNull THEN "The request body does not contain the data.error."
    ELSE IF ev.data.error.code = NULL \/ ev.data.error.message = NULL
    THEN "The data.error is invalid."
    ELSE ""

\* The checks of the RequestRejected branch
RejectedError(ev) ==
    IF ev.data.isNull THEN "The request body does not contain the data."
    ELSE IF ev.data.requestEventId = NULL
    THEN "The request body does not contain the data.requestEventId."
    ELSE IF ev.data.error.isNull THEN "The request body does not contain the data.error."
    ELSE IF ev.data.error.code = NULL \/ ev.data.error.message = NULL
    THEN "The data.error is invalid."
    ELSE IF ev.data.error.code \notin ErrorCodes THEN "The data.error is invalid."
    ELSE ""

\* UUID(): the values one handler run draws
RandomDraws ==
    { [pfId |-> "uuid-a1", companyId |-> "urn:uuid:uuid-a2",
       productId |-> "urn:uuid:uuid-a3", eventId |-> "uuid-a4"],
      [pfId |-> "uuid-b1", companyId |-> "urn:uuid:uuid-b2",
       productId |-> "urn:uuid:uuid-b3", eventId |-> "uuid-b4"] }

\* this.#data != null && this.#data[name] != null ? this.#data[name] : fresh
DataOr(data, name, fresh) == IF name \in DOMAIN data THEN data[name] ELSE fresh

\* Mutant of generateFootprint: the configured id wins over the id asked for
generateFootprintDataFirst(data, pfId, draw) ==
    [id |-> IF "id" \in DOMAIN data THEN data.id
            ELSE IF pfId = NULL THEN draw.pfId ELSE pfId,
     specVersion |-> "2.2.0",
     status |-> "Active",
     companyName |-> "Demo Company",
     companyIds |-> DataOr(data, "companyIds", draw.companyId),
     productDescription |-> "Demo Product",
     productIds |-> DataOr(data, "productIds", draw.productId),
     comment |-> "",
     pcf |-> "pcf example values"]

generateFootprint(data, pfId, draw) ==
    [id |-> IF pfId = NULL THEN DataOr(data, "id", draw.pfId) ELSE pfId,
     specVersion |-> "2.2.0",
     status |-> "Active",
     companyName |-> "Demo Company",
     companyIds |-> DataOr(data, "companyIds", draw.companyId),
     productDescription |-> "Demo Product",
     productIds |-> DataOr(data, "productIds", draw.productId),
     comment |-> "",
     pcf |-> "pcf example values"]

\* Mutant of MergeFragment: the generated values win over the fragment
MergeKeepingDefaults(footprint, fragment) ==
    [key \in DOMAIN footprint \cup DOMAIN fragment |->
        IF key \in DOMAIN footprint THEN footprint[key] ELSE fragment[key]]

\* Object.keys(fragment).forEach(key => { footprint[key] = fragment[key]; })
MergeFragment(footprint, fragment) ==
    [key \in DOMAIN footprint \cup DOMAIN fragment |->
        IF key \in DOMAIN fragment THEN fragment[key] ELSE footprint[key]]

\* The client-credentials request of the RequestCreated branch
AuthCall(destination) ==
    [kind |-> "auth",
     url |-> <<destination.authContextPath, destination.authPath>>,
     userName |-> destination.userName,
     password |-> destination.password]

\* The call-back of the RequestCreated branch
FulfilledEvent(contextPath, draw, eventId, footprint) ==
    [type |-> RequestFulfilled,
     specversion |-> "1.0",
     id |-> draw.eventId,
     source |-> <<contextPath, "/2/events">>,
     time |-> NULL,
     data |-> [requestEventId |-> eventId, pfs |-> <<footprint>>]]

EventsCall(destination, accessToken, event) ==
    [kind |-> "events",
     url |-> <<destination.dataContextPath, destination.pathPrefex, "/events">>,
     contentType |-> CloudEventsJson,
     bearer |-> accessToken,
     event |-> event]

\* handleProductFootprints: the footprint with the id of the path when the
\* path ends in a UUID, else the list of one footprint
handleProductFootprints(slot, data, draw) ==
    LET url == slot.in.url
    IN  IF EndsInUuid(url)
        THEN [handleJson(slot) EXCEPT
                !.sent = [shape |-> "single",
                          data |-> <<generateFootprint(data, url[Len(url)], draw)>>]]
        ELSE [handleJson(slot) EXCEPT
                !.sent = [shape |-> "list",
                          data |-> <<generateFootprint(data, NULL, draw)>>]]

(***************************************************************************)
(* The request listener of the constructor, up to the first await.         *)
(***************************************************************************)
Dispatch(slot, t, config, draw) ==
    LET request == slot.in
    IN  IF IsAuthTokenUrl(request.url)
        THEN IF BasicAccepted(request.authorization)
             THEN [slot EXCEPT !.state = "body"]
             ELSE Catch(handleUnauthorizedError(slot))
        ELSE IF IsFootprintsUrl(request.url)
        THEN IF handleAuthorization(request, t)
             THEN Finish(handleProductFootprints(slot, config.data, draw))
             ELSE Catch(handleForbiddenError(slot))
        ELSE IF IsEventsUrl(request.url)
        THEN IF handleAuthorization(request, t)
             THEN [slot EXCEPT !.state = "body"]
             ELSE Catch(handleForbiddenError(slot))
        ELSE Finish(handleNotFoundError(slot))

\* Mutant of EventsBody: a Published event is handled as a RequestCreated one
EventsBodyCallsBack(slot, destination) ==
    LET request == slot.in
        ev == request.body.ev
        type == Prop(request, "type")
        error == IF EnvelopeError(request) # "" THEN EnvelopeError(request)
                 ELSE IF type = RequestCreated THEN CreatedError(ev)
                 ELSE IF type = RequestFulfilled THEN FulfilledError(ev)
                 ELSE IF type = RequestRejected THEN RejectedError(ev)
                 ELSE ""
    IN  IF error # ""
        THEN Catch(handleBadRequestError(slot))
        ELSE IF type \in {RequestCreated, Published}
        THEN [handleSuccess(slot) EXCEPT
                !.state = "authCall", !.out = Append(@, AuthCall(destination))]
        ELSE Finish(EmitData(handleSuccess(slot)))

\* Mutant of EventsBody: a token granted to another connection is used again,
\* without an authentication
EventsBodyCachedToken(slot, destination) ==
    LET request == slot.in
        ev == request.body.ev
        type == Prop(request, "type")
        error == IF EnvelopeError(request) # "" THEN EnvelopeError(request)
                 ELSE IF type = RequestCreated THEN CreatedError(ev)
                 ELSE IF type = RequestFulfilled THEN FulfilledError(ev)
                 ELSE IF type = RequestRejected THEN RejectedError(ev)
                 ELSE ""
        granted == {i \in DOMAIN reqs :
                       /\ reqs[i].replies # <<>>
                       /\ reqs[i].replies[1].status = 200
                       /\ reqs[i].replies[1].accessToken # NULL}
    IN  IF error # ""
        THEN Catch(handleBadRequestError(slot))
        ELSE IF type = RequestCreated /\ granted # {}
        THEN LET cached == reqs[CHOOSE i \in granted : TRUE].replies[1].accessToken
                 draw == CHOOSE d \in RandomDraws : TRUE
                 footprint == MergeFragment(generateFootprint(setting.data, NULL, draw),
                                            ev.data.pf)
                 event == FulfilledEvent(setting.contextPath, draw, ev.id, footprint)
             IN  [handleSuccess(slot) EXCEPT
                    !.state = "eventsCall",
                    !.out = Append(@, EventsCall(destination, cached, event))]
        ELSE IF type = RequestCreated
        THEN [handleSuccess(slot) EXCEPT
                !.state = "authCall", !.out = Append(@, AuthCall(destination))]
        ELSE Finish(EmitData(handleSuccess(slot)))

(***************************************************************************)
(* handleEvents from the resolution of retrieveRequest to its next await   *)
(* or its end, with the then and catch of the request listener.            *)
(***************************************************************************)
EventsBody(slot, destination) ==
    LET request == slot.in
        ev == request.body.ev
        type == Prop(request, "type")
        error == IF EnvelopeError(request) # "" THEN EnvelopeError(request)
                 ELSE IF type = RequestCreated THEN CreatedError(ev)
                 ELSE IF type = RequestFulfilled THEN FulfilledError(ev)
                 ELSE IF type = RequestRejected THEN RejectedError(ev)
                 ELSE ""
    IN  IF error # ""
        THEN Catch(handleBadRequestError(slot))
        ELSE IF type = RequestCreated
        THEN [handleSuccess(slot) EXCEPT
                !.state = "authCall", !.out = Append(@, AuthCall(destination))]
        ELSE Finish(EmitData(handleSuccess(slot)))

\* handleAuthenticate from the resolution of retrieveRequest on
AuthenticateBody(slot, t) ==
    Finish([handleJson(slot) EXCEPT !.token = generateJwtToken(t)])

(***************************************************************************)
(* The reply to an outbound call (HttpClient.request): failed when the     *)
(* transport failed and the promise is rejected, else the status and, for  *)
(* the authentication, body.access_token.                                  *)
(***************************************************************************)
AuthReplies ==
    { [failed |-> FALSE, status |-> 200, accessToken |-> "destination-token"],
      [failed |-> FALSE, status |-> 200, accessToken |-> NULL],
      [failed |-> FALSE, status |-> 401, accessToken |-> NULL],
      [failed |-> FALSE, status |-> 500, accessToken |-> "destination-token"],
      [failed |-> TRUE, status |-> 0, accessToken |-> NULL] }

EventsReplies ==
    { [failed |-> FALSE, status |-> 200],
      [failed |-> FALSE, status |-> 202],
      [failed |-> FALSE, status |-> 400],
      [failed |-> TRUE, status |-> 0] }

\* Mutant of AccessTokenOf: the token is taken whatever the status
AccessTokenAnyStatus(reply) == reply.accessToken

\* let accessToken; if(_response.status == 200) { accessToken = ... }
AccessTokenOf(reply) == IF reply.status = 200 THEN reply.accessToken ELSE NULL

\* Mutant of AfterAuthReply: the event and the token are kept in fields of the
\* server, which hold those of the latest connection at work
AfterAuthReplySharedFields(slot, reply, config, draw) ==
    IF reply.failed \/ AccessTokenOf(reply) = NULL
    THEN Catch(handleBadRequestError(slot))
    ELSE LET atWork == {i \in DOMAIN reqs : reqs[i].state \in {"authCall", "eventsCall"}}
             latest == reqs[CHOOSE i \in atWork : \A j \in atWork : j <= i]
             ev == latest.in.body.ev
             accessToken == IF latest.replies # <<>>
                            THEN AccessTokenOf(latest.replies[1])
                            ELSE AccessTokenOf(reply)
             footprint == MergeFragment(generateFootprint(config.data, NULL, draw),
                                        ev.data.pf)
             event == FulfilledEvent(config.contextPath, draw, ev.id, footprint)
         IN  [slot EXCEPT
                !.state = "eventsCall",
                !.out = Append(@, EventsCall(config.destinationServer,
                                            accessToken, event))]

\* handleEvents from the reply to the authentication to its next await
AfterAuthReply(slot, reply, config, draw) ==
    IF reply.failed \/ AccessTokenOf(reply) = NULL
    THEN Catch(handleBadRequestError(slot))
    ELSE LET ev == slot.in.body.ev
             footprint == MergeFragment(generateFootprint(config.data, NULL, draw),
                                        ev.data.pf)
             event == FulfilledEvent(config.contextPath, draw, ev.id, footprint)
         IN  [slot EXCEPT
                !.state = "eventsCall",
                !.out = Append(@, EventsCall(config.destinationServer,
                                            AccessTokenOf(reply), event))]

\* handleEvents from the reply to the call-back to its end
AfterEventsReply(slot, reply) ==
    IF reply.failed \/ reply.status # 200
    THEN Catch(handleBadRequestError(slot))
    ELSE Finish(EmitData(slot))


(***************************************************************************)
(* The requests the stub server is sent.                                   *)
(***************************************************************************)
Fragments ==
    { NoFragment,
      [companyIds |-> "urn:uuid:A"],
      [id |-> "pf-7", companyIds |-> "urn:uuid:A", productIds |-> "urn:gtin:P",
       extra |-> "x"] }

Ev(type, data) ==
    [type |-> type, id |-> "event-1", source |-> "https://sut.example/2/events",
     time |-> "2024-01-01T00:00:00Z", data |-> data]

CreatedData(fragment) == [EmptyData EXCEPT !.pfNull = FALSE, !.pf = fragment]

FulfilledData ==
    [EmptyData EXCEPT !.requestEventId = "event-0", !.pfsNull = FALSE,
                      !.pfs = <<[id |-> "pf-1"]>>]

RejectedData(code, message) ==
    [EmptyData EXCEPT !.requestEventId = "event-0",
                      !.error = [isNull |-> FALSE, code |-> code, message |-> message]]

WellFormedEvents ==
    {Ev(Published, EmptyData), Ev(Published, NoData),
     Ev(RequestFulfilled, FulfilledData),
     Ev(RequestFulfilled, [FulfilledData EXCEPT !.pfsArray = FALSE]),
     Ev(RequestRejected, RejectedData("NotImplemented", "not implemented")),
     Ev(RequestRejected, RejectedData("AccessDenied", ""))}
    \cup {Ev(RequestCreated, CreatedData(fragment)) : fragment \in Fragments}

IllFormedData ==
    {Ev(RequestCreated, NoData), Ev(RequestCreated, EmptyData),
     Ev(RequestFulfilled, NoData),
     Ev(RequestFulfilled, [FulfilledData EXCEPT !.requestEventId = NULL]),
     Ev(RequestFulfilled, [FulfilledData EXCEPT !.pfsNull = TRUE, !.pfs = <<>>]),
     Ev(RequestFulfilled, [FulfilledData EXCEPT !.pfs = <<>>]),
     Ev(RequestRejected, NoData),
     Ev(RequestRejected, [RejectedData("BadRequest", "m") EXCEPT !.requestEventId = NULL]),
     Ev(RequestRejected, [EmptyData EXCEPT !.requestEventId = "event-0"]),
     Ev(RequestRejected, RejectedData(NULL, "m")),
     Ev(RequestRejected, RejectedData("BadRequest", NULL)),
     Ev(RequestRejected, RejectedData("Teapot", "m"))}

IllFormedEnvelopes ==
    LET some == {Ev(Published, EmptyData),
                 Ev(RequestCreated, CreatedData([companyIds |-> "urn:uuid:A"])),
                 Ev(RequestFulfilled, FulfilledData)}
    IN  UNION {{[ev EXCEPT !.id = NULL], [ev EXCEPT !.source = NULL],
                [ev EXCEPT !.time = NULL], [ev EXCEPT !.type = NULL],
                [ev EXCEPT !.type = "org.wbcsd.pathfinder.Unknown.v1"]} : ev \in some}

EventInputs == WellFormedEvents \cup IllFormedData \cup IllFormedEnvelopes

\* Authorization headers of a client that holds the last token handed out
FewTokens ==
    {RandomToken} \cup
    (IF lastToken = NoToken THEN {}
     ELSE LET h == lastToken[1]
              c == lastToken[2]
              s == lastToken[3]
              later == [Decode(c) EXCEPT !.exp = @ + TokenLifetime]
          IN  {lastToken, <<h, c>>, <<AltForm(h), c, s>>, <<h, Encode(later), s>>,
               <<h, c, Junk>>, Signed("guess", JwtHeader, later)})

AuthorizationHeaders ==
    {NoAuthorization, Basic(<<"user", "pw">>),
     [scheme |-> "bearer", cred |-> <<>>, token |-> lastToken]}
    \cup {Bearer(token) : token \in FewTokens}

GoodAuthorization == {Bearer(token) : token \in {lastToken} \ {NoToken}}

Request(method, url, authorization, contentType, body) ==
    [method |-> method, url |-> url, authorization |-> authorization,
     contentType |-> contentType, body |-> body]

TokenRequests ==
    {Request("POST", <<"auth", "token">>, authorization, FormUrlEncoded, TextBody) :
        authorization \in {NoAuthorization, Bearer(RandomToken),
                           Basic(<<"user", "pw">>), Basic(<<"x", "y">>),
                           Basic(<<"", "">>), Basic(<<"user">>),
                           Basic(<<"user", "p", "w">>)}}
    \cup
    {Request(method, <<"auth", "token">>, Basic(<<"x", "y">>), contentType, body) :
        method \in {"GET"},
        contentType \in {NULL, "application/json"},
        body \in {NoBody, TextBody, ScalarBody}}

FootprintsRequests ==
    {Request("GET", <<"2", "footprints">>, authorization, NULL, NoBody) :
        authorization \in AuthorizationHeaders}
    \cup
    {Request(method, url, authorization, NULL, NoBody) :
        method \in {"GET", "POST"},
        url \in {<<"2", "footprints", "3fae5c0a-0000-4000-8000-000000000001">>,
                 <<"2", "footprints", "abc">>, <<"2", "footprints?limit=1">>,
                 <<"2", "footprintsX">>},
        authorization \in GoodAuthorization \cup {NoAuthorization}}

EventsRequests ==
    {Request("POST", <<"2", "events">>, authorization, CloudEventsJson, EventBody(ev)) :
        authorization \in AuthorizationHeaders \ GoodAuthorization,
        ev \in {Ev(RequestCreated, CreatedData([companyIds |-> "urn:uuid:A"])),
                Ev(RequestFulfilled, FulfilledData)}}
    \cup
    {Request("POST", <<"2", "events">>, authorization, CloudEventsJson, body) :
        authorization \in GoodAuthorization,
        body \in {EventBody(ev) : ev \in EventInputs}
                 \cup {NoBody, TextBody, ScalarBody, NullBody}}
    \cup
    {Request("POST", <<"2", "events">>, authorization, contentType, body) :
        authorization \in GoodAuthorization,
        contentType \in {NULL, "application/json", "text/plain",
                         "application/cloudevents+json"},
        body \in {EventBody(Ev(RequestCreated, CreatedData([companyIds |-> "urn:uuid:A"]))),
                  TextBody, NoBody}}
    \cup
    {Request("GET", <<"2", "events">>, authorization, CloudEventsJson,
             EventBody(Ev(Published, EmptyData))) :
        authorization \in GoodAuthorization}

OtherRequests ==
    {Request("GET", url, authorization, NULL, NoBody) :
        url \in {<<>>, <<"2", "events", "1">>, <<"0", "events">>},
        authorization \in GoodAuthorization \cup {NoAuthorization}}

Requests == TokenRequests \cup FootprintsRequests \cup EventsRequests \cup OtherRequests

\* What the connections beside the first carry: the request that stays in
\* flight the longest
BackgroundRequests ==
    {Request("POST", <<"2", "events">>, authorization, CloudEventsJson,
             EventBody(Ev(RequestCreated, CreatedData([companyIds |-> "urn:uuid:A"])))) :
        authorization \in GoodAuthorization}

RequestsOn(i) == IF i = 1 THEN Requests ELSE BackgroundRequests

(***************************************************************************)
(* The stub server as the validator constructs it (validator.js, 992-1004) *)
(***************************************************************************)
StubData ==
    { NoFragment,
      [id |-> "pf-stub", companyIds |-> "urn:uuid:S", productIds |-> "urn:gtin:S"] }

Destination ==
    [authContextPath |-> "https://sut.example/auth", authPath |-> "/auth/token",
     userName |-> "user", password |-> "pw",
     dataContextPath |-> "https://sut.example/data", pathPrefex |-> "/2"]

StubInit ==
    /\ setting \in {[contextPath |-> "http://localhost:3000",
                     destinationServer |-> Destination,
                     data |-> data] : data \in StubData}
    /\ reqs = [i \in 1..MaxInFlight |-> FreeSlot]
    /\ crashed = FALSE

\* An exception nothing catches (thrown in a stream listener, or rejecting a
\* promise nobody handles) ends the process
Escaped(slot) == slot.threw # ""

\* The clock advances between the steps of the handlers.  An answered request
\* is forgotten (StubClose) before it does: nothing happens to it any more.
\* The clock is looked at on the first connection only: the others are idle
\* when it advances.
StubTick ==
    /\ ~crashed
    /\ \A i \in DOMAIN reqs : reqs[i].state # "done"
    /\ \A i \in DOMAIN reqs \ {1} : reqs[i].state = "free"
    /\ \E d \in {1, TokenLifetime * MsPerSec} : ClockTick(d)
    /\ UNCHANGED <<lastToken, issuedAt, presented, verdict, stubVars, valVars>>

\* A request arrives on connection i: the request listener runs
StubReceive(i) ==
    /\ ~crashed
    /\ reqs[i].state = "free"
    /\ \E request \in RequestsOn(i), draw \in RandomDraws :
         LET slot == Dispatch([FreeSlot EXCEPT !.in = request, !.at = now], now,
                              setting, draw)
         IN  /\ reqs' = [reqs EXCEPT ![i] = slot]
             /\ crashed' = Escaped(slot)
    /\ UNCHANGED <<tokenVars, setting, valVars>>

\* The request stream of connection i ends: the "end" listener of
\* retrieveRequest runs, and what awaited it
StubBodyEnd(i) ==
    /\ ~crashed
    /\ reqs[i].state = "body"
    /\ LET ended == [reqs[i] EXCEPT !.stream = "end"]
           slot ==
             IF RetrieveThrows(ended.in)
             THEN Finish([ended EXCEPT !.threw = "SyntaxError"])
             ELSE IF IsAuthTokenUrl(ended.in.url)
             THEN AuthenticateBody(ended, now)
             ELSE EventsBody(ended, setting.destinationServer)
       IN  /\ reqs' = [reqs EXCEPT ![i] = slot]
           /\ crashed' = Escaped(slot)
           /\ IF slot.token # NoToken
              THEN lastToken' = slot.token /\ issuedAt' = now
              ELSE UNCHANGED <<lastToken, issuedAt>>
    /\ UNCHANGED <<now, ticks, presented, verdict, setting, valVars>>

\* The request stream of connection i fails: the "error" listener rejects
StubBodyError(i) ==
    /\ ~crashed
    /\ reqs[i].state = "body"
    /\ LET failed == [reqs[i] EXCEPT !.stream = "error"]
           slot == IF IsAuthTokenUrl(failed.in.url)
                   THEN Catch(handleUnauthorizedError(failed))
                   ELSE Catch(handleBadRequestError(failed))
       IN  /\ reqs' = [reqs EXCEPT ![i] = slot]
           /\ crashed' = Escaped(slot)
    /\ UNCHANGED <<tokenVars, setting, valVars>>

\* The destination answers the client-credentials request of connection i
StubAuthReply(i) ==
    /\ ~crashed
    /\ reqs[i].state = "authCall"
    /\ \E reply \in AuthReplies, draw \in RandomDraws :
         LET slot == AfterAuthReply([reqs[i] EXCEPT !.replies = Append(@, reply)],
                                    reply, setting, draw)
         IN  /\ reqs' = [reqs EXCEPT ![i] = slot]
             /\ crashed' = Escaped(slot)
    /\ UNCHANGED <<tokenVars, setting, valVars>>

\* The destination answers the call-back of connection i
StubEventsReply(i) ==
    /\ ~crashed
    /\ reqs[i].state = "eventsCall"
    /\ \E reply \in EventsReplies :
         LET slot == AfterEventsReply([reqs[i] EXCEPT !.replies = Append(@, reply)],
                                      reply)
         IN  /\ reqs' = [reqs EXCEPT ![i] = slot]
             /\ crashed' = Escaped(slot)
    /\ UNCHANGED <<tokenVars, setting, valVars>>

\* Connection i, answered, is closed
StubClose(i) ==
    /\ ~crashed
    /\ reqs[i].state = "done"
    /\ reqs' = [reqs EXCEPT ![i] = FreeSlot]
    /\ UNCHANGED <<tokenVars, setting, crashed, valVars>>


(***************************************************************************)
(* The stub server with one connection per request in flight, each         *)
(* connection sending its own RequestCreated event.                        *)
(***************************************************************************)
\* The event of connection i: its own id, its own fragment
CreatedOn(i) ==
    [Ev(RequestCreated,
        CreatedData([companyIds |-> "urn:uuid:company-" \o ToString(i)]))
     EXCEPT !.id = "event-" \o ToString(i)]

\* What connection i sends: it asks for a token, and it sends its event with
\* the token issued
ConcurrentRequestsOn(i) ==
    {Request("POST", <<"auth", "token">>, Basic(<<"user", "pw">>), FormUrlEncoded,
             TextBody)}
    \cup
    {Request("POST", <<"2", "events">>, authorization, CloudEventsJson,
             EventBody(CreatedOn(i))) :
        authorization \in GoodAuthorization}

\* The destination grants one token or another, or refuses
ConcurrentAuthReplies ==
    { [failed |-> FALSE, status |-> 200, accessToken |-> "destination-token"],
      [failed |-> FALSE, status |-> 200, accessToken |-> "destination-token-2"],
      [failed |-> FALSE, status |-> 401, accessToken |-> NULL] }

ConcurrentInit ==
    /\ setting \in {[contextPath |-> "http://localhost:3000",
                     destinationServer |-> Destination,
                     data |-> data] : data \in StubData}
    /\ reqs = [i \in 1..MaxConcurrent |-> FreeSlot]
    /\ crashed = FALSE

\* A request arrives on connection i: the request listener runs
ConcReceive(i) ==
    /\ ~crashed
    /\ reqs[i].state = "free"
    /\ \E request \in ConcurrentRequestsOn(i), draw \in RandomDraws :
         LET slot == Dispatch([FreeSlot EXCEPT !.in = request, !.at = now], now,
                              setting, draw)
         IN  /\ reqs' = [reqs EXCEPT ![i] = slot]
             /\ crashed' = Escaped(slot)
    /\ UNCHANGED <<tokenVars, setting, valVars>>

\* The destination answers the client-credentials request of connection i
ConcAuthReply(i) ==
    /\ ~crashed
    /\ reqs[i].state = "authCall"
    /\ \E reply \in ConcurrentAuthReplies, draw \in RandomDraws :
         LET slot == AfterAuthReply([reqs[i] EXCEPT !.replies = Append(@, reply)],
                                    reply, setting, draw)
         IN  /\ reqs' = [reqs EXCEPT ![i] = slot]
             /\ crashed' = Escaped(slot)
    /\ UNCHANGED <<tokenVars, setting, valVars>>

(***************************************************************************)
(* The stub server constructed by a caller that attaches any of the two    *)
(* listeners, or none.                                                     *)
(***************************************************************************)
SubscriberSets == SUBSET {"data", "error"}

\* Requests that are answered 200, 403, 400 and 404
SubscriberRequests ==
    {Request("POST", <<"auth", "token">>, Basic(<<"user", "pw">>), FormUrlEncoded,
             TextBody),
     Request("GET", <<"2", "footprints">>, NoAuthorization, NULL, NoBody),
     Request("GET", <<"0", "events">>, NoAuthorization, NULL, NoBody)}
    \cup
    {Request("GET", <<"2", "footprints">>, authorization, NULL, NoBody) :
        authorization \in GoodAuthorization}
    \cup
    {Request("POST", <<"2", "events">>, authorization, CloudEventsJson, EventBody(ev)) :
        authorization \in GoodAuthorization,
        ev \in {Ev(Published, EmptyData), Ev(RequestCreated, NoData),
                Ev(RequestFulfilled, FulfilledData),
                Ev(RequestFulfilled, [FulfilledData EXCEPT !.pfsArray = FALSE])}}

\* A request arrives on connection i: the request listener runs
SubReceive(i) ==
    /\ ~crashed
    /\ reqs[i].state = "free"
    /\ \E request \in SubscriberRequests, draw \in RandomDraws :
         LET slot == Dispatch([FreeSlot EXCEPT !.in = request, !.at = now], now,
                              setting, draw)
         IN  /\ reqs' = [reqs EXCEPT ![i] = slot]
             /\ crashed' = Escaped(slot)
    /\ UNCHANGED <<tokenVars, setting, valVars>>

(***************************************************************************)
(* Test Orchestrator: PathfinderValidator.validate.                        *)
(*                                                                         *)
(* The run is the record val:                                              *)
(*   pc        "idle", the await it is suspended at ("discovery",          *)
(*             "negativeAuth", "positiveAuth", "list", "engine"),          *)
(*             "returned" or "threw"                                       *)
(*   calls     the outbound calls it made itself, in order                 *)
(*   replies   the replies to them, in order                               *)
(*   inFlight  the calls made and not yet answered                         *)
(*   ng        the NG lines it logged                                      *)
(*   error     the message of the exception it threw                       *)
(***************************************************************************)
NoCalls == <<>>

IdleRun ==
    [pc |-> "idle", calls |-> NoCalls, replies |-> <<>>, inFlight |-> {},
     ng |-> <<>>, error |-> "",
     authContextPath |-> NULL, authPath |-> "/auth/token", accessToken |-> NULL,
     pathPrefex |-> NULL, footprints |-> <<>>,
     createdVariation |-> <<>>, productIdsVariation |-> <<>>,
     testCases |-> <<>>, stubStarted |-> FALSE, listeners |-> {},
     engineStarted |-> FALSE]

\* version.startsWith("1"), version.startsWith("2")
MajorOf(version) ==
    CASE version \in {"1.0.1"} -> "1"
      [] version \in {"2.0.0", "2.2.0"} -> "2"
      [] OTHER -> "other"

\* response = await Http.request(...): the call is made and awaited
Await(run, kind, call) ==
    [run EXCEPT !.pc = kind,
                !.calls = Append(@, [call EXCEPT !.kind = kind]),
                !.inFlight = @ \cup {kind}]

\* the awaited call is answered, or fails
Resume(run) == [run EXCEPT !.inFlight = @ \ {run.pc}]

\* logger.writeLog("NG ..."); return;
HardFailure(run, line) == [run EXCEPT !.pc = "returned", !.ng = Append(@, line)]

\* throw new Error(message), and the exceptions of the run time
Throw(run, message) == [run EXCEPT !.pc = "threw", !.error = message]

Call(url, authorization) == [kind |-> "", url |-> url, authorization |-> authorization]

\* this.randomString(16) for user name and password
IncorrectCredentials == <<"random-16-user", "random-16-password">>

\* validate down to its first await
ValidateEntry(run, cfg) ==
    IF cfg.authContextPath = NULL THEN Throw(run, "The authContextPath is not specified.")
    ELSE IF cfg.userName = NULL THEN Throw(run, "The userName is not specified.")
    ELSE IF cfg.password = NULL THEN Throw(run, "The password is not specified.")
    ELSE IF cfg.dataContextPath = NULL
    THEN Throw(run, "The dataContextPath is not specified.")
    ELSE Await([run EXCEPT !.authContextPath = cfg.authContextPath], "discovery",
               Call(<<cfg.authContextPath, "/.well-known/openid-configuration">>,
                    NoAuthorization))

\* Mutant of AfterDiscovery: both grants are requested at once
AfterDiscoveryBothGrants(run, reply, cfg) ==
    IF reply.failed THEN Throw(Resume(run), "transport error")
    ELSE Await(Await(Resume(run), "negativeAuth",
                     Call(<<run.authContextPath, run.authPath>>,
                          Basic(IncorrectCredentials))),
               "positiveAuth",
               Call(<<run.authContextPath, run.authPath>>,
                    Basic(<<cfg.userName, cfg.password>>)))

\* from the reply to the discovery to the next await
AfterDiscovery(run, reply, cfg) ==
    IF reply.failed THEN Throw(Resume(run), "transport error")
    ELSE LET found == reply.status = 200 /\ ~reply.bodyNull /\ reply.tokenEndpoint # NULL
             resolved == IF found
                         THEN [Resume(run) EXCEPT !.authContextPath = "",
                                                  !.authPath = reply.tokenEndpoint]
                         ELSE Resume(run)
         IN  Await(resolved, "negativeAuth",
                   Call(<<resolved.authContextPath, resolved.authPath>>,
                        Basic(IncorrectCredentials)))

\* Mutant of AfterNegativeAuth: a 200 counts only when it carries a token
AfterNegativeAuthTokenOnly(run, reply, cfg) ==
    IF reply.failed THEN Throw(Resume(run), "transport error")
    ELSE IF reply.status = 200 /\ reply.accessToken # NULL
    THEN HardFailure(Resume(run), "Success response was obtained despite incorrect credentials.")
    ELSE Await(Resume(run), "positiveAuth",
               Call(<<run.authContextPath, run.authPath>>,
                    Basic(<<cfg.userName, cfg.password>>)))

\* Mutant of AfterNegativeAuth: the NG line is logged and the run goes on
AfterNegativeAuthNoReturn(run, reply, cfg) ==
    IF reply.failed THEN Throw(Resume(run), "transport error")
    ELSE Await([Resume(run) EXCEPT
                  !.ng = IF reply.status = 200
                         THEN Append(@, "Success response was obtained despite incorrect credentials.")
                         ELSE @],
               "positiveAuth",
               Call(<<run.authContextPath, run.authPath>>,
                    Basic(<<cfg.userName, cfg.password>>)))

\* from the reply to the attempt with incorrect credentials to the next await
AfterNegativeAuth(run, reply, cfg) ==
    IF reply.failed THEN Throw(Resume(run), "transport error")
    ELSE IF reply.status = 200
    THEN HardFailure(Resume(run), "Success response was obtained despite incorrect credentials.")
    ELSE Await(Resume(run), "positiveAuth",
               Call(<<run.authContextPath, run.authPath>>,
                    Basic(<<cfg.userName, cfg.password>>)))

\* from the reply to the client-credentials grant to the next await
AfterPositiveAuth(run, reply, cfg) ==
    IF reply.failed THEN Throw(Resume(run), "transport error")
    ELSE IF reply.status # 200 THEN HardFailure(Resume(run), "Authentication failed.")
    ELSE IF reply.bodyNull THEN Throw(Resume(run), "TypeError")
    ELSE IF reply.accessToken = NULL THEN HardFailure(Resume(run), "Access token is empty.")
    ELSE IF MajorOf(cfg.version) = "other" THEN Throw(Resume(run), "Invalid specVersion.")
    ELSE LET pathPrefex == IF MajorOf(cfg.version) = "1" THEN "/0" ELSE "/2"
         IN  Await([Resume(run) EXCEPT !.accessToken = reply.accessToken,
                                       !.pathPrefex = pathPrefex],
                   "list",
                   Call(<<cfg.dataContextPath, pathPrefex, "/footprints">>,
                        [scheme |-> "Bearer", cred |-> <<>>,
                         token |-> <<reply.accessToken>>]))

\* result.includes(value)
Includes(seq, value) == \E i \in 1..Len(seq) : seq[i] = value

\* Mutant of CreatedVariation: every created value is recorded, repeated or not
CreatedVariationKeepsAll(footprints, result) ==
    [k \in 1..(Len(result) + Len(footprints)) |->
        IF k <= Len(result) THEN result[k] ELSE footprints[k - Len(result)].created]

\* footprints.reduce(...) over record.created
RECURSIVE CreatedVariation(_, _)
CreatedVariation(footprints, result) ==
    IF footprints = <<>> THEN result
    ELSE CreatedVariation(Tail(footprints),
            IF ~Includes(result, Head(footprints).created)
            THEN Append(result, Head(footprints).created)
            ELSE result)

\* Mutant of NoEntryWithin: the record's identifiers are looked up in the entry
RecordWithinNoEntry(result, record) ==
    ~\E i \in 1..Len(result) :
        \A j \in 1..Len(record.productIds) : Includes(result[i], record.productIds[j])

\* result.findIndex(entry => entry.every(productId =>
\*     record.productIds.includes(productId))) == -1
NoEntryWithin(result, record) ==
    ~\E i \in 1..Len(result) :
        \A j \in 1..Len(result[i]) : Includes(record.productIds, result[i][j])

\* footprints.reduce(...) over record.productIds
RECURSIVE ProductIdsVariation(_, _)
ProductIdsVariation(footprints, result) ==
    IF footprints = <<>> THEN result
    ELSE ProductIdsVariation(Tail(footprints),
            IF NoEntryWithin(result, Head(footprints))
            THEN Append(result, Head(footprints).productIds)
            ELSE result)

TestCaseTitles ==
    <<"Retrieval of all footprints", "Date filtering for footprints",
      "Product filtering for footprints", "Footprint acquisition limitations",
      "Retrieve the specific footprint", "Footprint update notification",
      "Request to send footprints", "Illegal access token",
      "Incorrect specific footprint request">>

\* Mutant of StubSetting: the stub server is given the configured
\* authContextPath and the default path
StubSettingConfiguredAuth(run, cfg) ==
    [contextPath |-> cfg.stubContextPath,
     destinationServer |->
        [authContextPath |-> cfg.authContextPath, authPath |-> "/auth/token",
         userName |-> cfg.userName, password |-> cfg.password,
         dataContextPath |-> cfg.dataContextPath, pathPrefex |-> run.pathPrefex],
     data |-> cfg.stubData]

\* The body of the event the test cases "Footprint update notification" and
\* "Request to send footprints" send the system under test
TestEvent(type, cfg, pathPrefex) ==
    [type |-> type,
     specversion |-> "1.0",
     id |-> "uuid",
     source |-> <<cfg.stubContextPath, pathPrefex, "/events">>,
     time |-> "2024-01-01T00:00:00Z",
     data |-> IF type = Published THEN "pfIds" ELSE "pf"]

\* new StubPathfinderServer({...}) as validate constructs it
StubSetting(run, cfg) ==
    [contextPath |-> cfg.stubContextPath,
     destinationServer |->
        [authContextPath |-> run.authContextPath, authPath |-> run.authPath,
         userName |-> cfg.userName, password |-> cfg.password,
         dataContextPath |-> cfg.dataContextPath, pathPrefex |-> run.pathPrefex],
     data |-> cfg.stubData]

\* from the test set to the await of the assertion engine.  Building the test
\* set reads createdVariation[0] and productIdsVariation[0], which are
\* undefined when the list has a single record.
Assemble(run, cfg) ==
    IF Len(run.footprints) = 1 THEN Throw(run, "TypeError")
    ELSE LET started == IF cfg.eventsSupport
                        THEN [run EXCEPT !.stubStarted = TRUE,
                                         !.listeners = {"data", "error"}]
                        ELSE run
         IN  [started EXCEPT !.testCases = TestCaseTitles,
                             !.engineStarted = TRUE,
                             !.pc = "engine"]

\* Mutant of AfterList: an empty list of footprints is let through
AfterListAllowsEmpty(run, reply, cfg) ==
    IF reply.failed THEN Throw(Resume(run), "transport error")
    ELSE IF reply.status # 200 /\ reply.status # 202
    THEN HardFailure(Resume(run), "Footprints acquisition failed.")
    ELSE IF reply.bodyNull
    THEN HardFailure(Resume(run), "the data is empty.")
    ELSE IF reply.dataNull
    THEN HardFailure(Resume(run), "the data is empty.")
    ELSE LET got == [Resume(run) EXCEPT !.footprints = reply.data]
         IN  IF Len(reply.data) = 1
             THEN IF cfg.filterSupport \/ cfg.limitSupport
                  THEN HardFailure(got, "there is only one data set")
                  ELSE Assemble(got, cfg)
             ELSE LET created == CreatedVariation(reply.data, <<>>)
                      productIds == ProductIdsVariation(reply.data, <<>>)
                      derived == [got EXCEPT !.createdVariation = created,
                                             !.productIdsVariation = productIds]
                  IN  IF cfg.filterSupport /\ Len(created) <= 1
                      THEN HardFailure(derived, "only one variation of the created")
                      ELSE IF cfg.filterSupport /\ Len(productIds) <= 1
                      THEN HardFailure(derived, "only one variation of the productIds")
                      ELSE Assemble(derived, cfg)

\* Mutant of AfterList: a single record is refused only for filterSupport
AfterListFilterOnly(run, reply, cfg) ==
    IF reply.failed THEN Throw(Resume(run), "transport error")
    ELSE IF reply.status # 200 /\ reply.status # 202
    THEN HardFailure(Resume(run), "Footprints acquisition failed.")
    ELSE IF reply.bodyNull
    THEN HardFailure(Resume(run), "the data is empty.")
    ELSE IF reply.dataNull \/ Len(reply.data) = 0
    THEN HardFailure(Resume(run), "the data is empty.")
    ELSE LET got == [Resume(run) EXCEPT !.footprints = reply.data]
         IN  IF Len(reply.data) = 1
             THEN IF cfg.filterSupport
                  THEN HardFailure(got, "there is only one data set")
                  ELSE Assemble(got, cfg)
             ELSE LET created == CreatedVariation(reply.data, <<>>)
                      productIds == ProductIdsVariation(reply.data, <<>>)
                      derived == [got EXCEPT !.createdVariation = created,
                                             !.productIdsVariation = productIds]
                  IN  IF cfg.filterSupport /\ Len(created) <= 1
                      THEN HardFailure(derived, "only one variation of the created")
                      ELSE IF cfg.filterSupport /\ Len(productIds) <= 1
                      THEN HardFailure(derived, "only one variation of the productIds")
                      ELSE Assemble(derived, cfg)

\* from the reply to the list of footprints to the next await
AfterList(run, reply, cfg) ==
    IF reply.failed THEN Throw(Resume(run), "transport error")
    ELSE IF reply.status # 200 /\ reply.status # 202
    THEN HardFailure(Resume(run), "Footprints acquisition failed.")
    ELSE IF reply.bodyNull
    THEN HardFailure(Resume(run), "the data is empty.")
    ELSE IF reply.dataNull \/ Len(reply.data) = 0
    THEN HardFailure(Resume(run), "the data is empty.")
    ELSE LET got == [Resume(run) EXCEPT !.footprints = reply.data]
         IN  IF Len(reply.data) = 1
             THEN IF cfg.filterSupport \/ cfg.limitSupport
                  THEN HardFailure(got, "there is only one data set")
                  ELSE Assemble(got, cfg)
             ELSE LET created == CreatedVariation(reply.data, <<>>)
                      productIds == ProductIdsVariation(reply.data, <<>>)
                      derived == [got EXCEPT !.createdVariation = created,
                                             !.productIdsVariation = productIds]
                  IN  IF cfg.filterSupport /\ Len(created) <= 1
                      THEN HardFailure(derived, "only one variation of the created")
                      ELSE IF cfg.filterSupport /\ Len(productIds) <= 1
                      THEN HardFailure(derived, "only one variation of the productIds")
                      ELSE Assemble(derived, cfg)


(***************************************************************************)
(* The settings validate is called with, and the replies of the system     *)
(* under test.                                                             *)
(***************************************************************************)
\* if(filterSupport == null) { filterSupport = false; } ... on local variables
Defaults(given) ==
    [given EXCEPT !.filterSupport = (@ = "true"),
                  !.limitSupport = (@ = "true"),
                  !.eventsSupport = (@ = "true"),
                  !.stubContextPath = IF @ = NULL THEN "http://localhost:3000" ELSE @]

FullSetting ==
    [version |-> "2.2.0", authContextPath |-> "https://sut.example/auth",
     userName |-> "user", password |-> "pw",
     dataContextPath |-> "https://sut.example/data",
     filterSupport |-> NULL, limitSupport |-> NULL, eventsSupport |-> NULL,
     stubContextPath |-> NULL, stubData |-> NoFragment, keepStub |-> NULL]

CallerSettings ==
    {[FullSetting EXCEPT !.authContextPath = NULL], [FullSetting EXCEPT !.userName = NULL],
     [FullSetting EXCEPT !.password = NULL], [FullSetting EXCEPT !.dataContextPath = NULL]}
    \cup
    {[FullSetting EXCEPT !.version = version, !.filterSupport = filter,
                         !.limitSupport = limit, !.eventsSupport = events,
                         !.stubData = data] :
        version \in {"1.0.1", "2.2.0", "3.0.0"},
        filter \in {NULL, "true"}, limit \in {"false", "true"},
        events \in {NULL, "true"}, data \in StubData}

DiscoveryReplies ==
    {[failed |-> FALSE, status |-> 200, bodyNull |-> FALSE,
      tokenEndpoint |-> "https://idp.example/oauth/token"],
     [failed |-> FALSE, status |-> 200, bodyNull |-> FALSE, tokenEndpoint |-> NULL],
     [failed |-> FALSE, status |-> 200, bodyNull |-> TRUE, tokenEndpoint |-> NULL],
     [failed |-> FALSE, status |-> 404, bodyNull |-> FALSE,
      tokenEndpoint |-> "https://idp.example/oauth/token"],
     [failed |-> TRUE, status |-> 0, bodyNull |-> TRUE, tokenEndpoint |-> NULL]}

GrantReplies ==
    {[failed |-> FALSE, status |-> 200, bodyNull |-> FALSE, accessToken |-> "sut-token"],
     [failed |-> FALSE, status |-> 200, bodyNull |-> FALSE, accessToken |-> NULL],
     [failed |-> FALSE, status |-> 200, bodyNull |-> TRUE, accessToken |-> NULL],
     [failed |-> FALSE, status |-> 401, bodyNull |-> FALSE, accessToken |-> NULL],
     [failed |-> TRUE, status |-> 0, bodyNull |-> TRUE, accessToken |-> NULL]}

FootprintRecords ==
    {[id |-> "pf-1", created |-> created, productIds |-> <<"urn:gtin:1">>] :
        created \in {"2024-01-01T00:00:00Z", "2024-02-01T00:00:00Z"}}
    \cup
    {[id |-> "pf-1", created |-> "2024-01-01T00:00:00Z", productIds |-> productIds] :
        productIds \in {<<>>, <<"urn:gtin:1", "urn:gtin:2">>}}
    \cup
    {[id |-> "pf-1", created |-> "2024-02-01T00:00:00Z",
      productIds |-> <<"urn:gtin:2">>]}

FootprintLists == UNION {[1..n -> FootprintRecords] : n \in 0..MaxRecords}

ListReplies ==
    {[failed |-> FALSE, status |-> status, bodyNull |-> FALSE, dataNull |-> FALSE,
      data |-> data] : status \in {200, 202}, data \in FootprintLists}
    \cup
    {[failed |-> FALSE, status |-> 200, bodyNull |-> TRUE, dataNull |-> TRUE, data |-> <<>>],
     [failed |-> FALSE, status |-> 200, bodyNull |-> FALSE, dataNull |-> TRUE, data |-> <<>>],
     [failed |-> FALSE, status |-> 404, bodyNull |-> FALSE, dataNull |-> FALSE,
      data |-> <<[id |-> "pf-1", created |-> "2024-01-01T00:00:00Z",
                  productIds |-> <<"urn:gtin:1">>]>>],
     [failed |-> TRUE, status |-> 0, bodyNull |-> TRUE, dataNull |-> TRUE, data |-> <<>>]}

NoSetting ==
    [contextPath |-> NULL,
     destinationServer |->
        [authContextPath |-> NULL, authPath |-> NULL, userName |-> NULL,
         password |-> NULL, dataContextPath |-> NULL, pathPrefex |-> NULL],
     data |-> NoFragment]

\* The stub server on its own has the two listeners of validate attached
ValidatorIdle ==
    /\ callerSetting = FullSetting
    /\ val = [IdleRun EXCEPT !.listeners = {"data", "error"}]

ValidatorInit ==
    /\ callerSetting \in CallerSettings
    /\ val = IdleRun
    /\ setting = NoSetting
    /\ reqs = [i \in 1..MaxInFlight |-> FreeSlot]
    /\ crashed = FALSE

\* The awaited call of the run is answered with reply
Answered(run, reply) == [run EXCEPT !.replies = Append(@, reply)]

\* The command line around validate: the process ends when validate threw,
\* and when it returned and keepStub is not set
Exits(run, given) ==
    \/ run.pc = "threw"
    \/ run.pc = "returned" /\ given.keepStub \in {NULL, "false"}

\* process.exit(1) in the catch, process.exit(0) after the await
ExitCode(run) == IF run.pc = "threw" THEN 1 ELSE 0

\* Mutant of Proceed: the default of stubContextPath is written to the setting
\* of the caller
ProceedWritingDefault(run) ==
    /\ val' = run
    /\ setting' = IF run.stubStarted /\ ~val.stubStarted
                  THEN StubSetting(run, Defaults(callerSetting))
                  ELSE setting
    /\ reqs' = IF Exits(run, callerSetting)
               THEN [i \in DOMAIN reqs |-> FreeSlot]
               ELSE reqs
    /\ callerSetting' = [callerSetting EXCEPT !.stubContextPath =
                            Defaults(callerSetting).stubContextPath]
    /\ UNCHANGED <<tokenVars, crashed>>

\* The run moves on; the stub server is constructed when the run starts it,
\* and its connections end with the process
Proceed(run) ==
    /\ val' = run
    /\ setting' = IF run.stubStarted /\ ~val.stubStarted
                  THEN StubSetting(run, Defaults(callerSetting))
                  ELSE setting
    /\ reqs' = IF Exits(run, callerSetting)
               THEN [i \in DOMAIN reqs |-> FreeSlot]
               ELSE reqs
    /\ UNCHANGED <<tokenVars, crashed, callerSetting>>

ValStart ==
    /\ val.pc = "idle"
    /\ Proceed(ValidateEntry(val, Defaults(callerSetting)))

ValDiscoveryReply ==
    /\ val.pc = "discovery"
    /\ \E reply \in DiscoveryReplies :
         Proceed(AfterDiscovery(Answered(val, reply), reply, Defaults(callerSetting)))

ValNegativeAuthReply ==
    /\ val.pc = "negativeAuth"
    /\ \E reply \in GrantReplies :
         Proceed(AfterNegativeAuth(Answered(val, reply), reply, Defaults(callerSetting)))

ValPositiveAuthReply ==
    /\ val.pc = "positiveAuth"
    /\ \E reply \in GrantReplies :
         Proceed(AfterPositiveAuth(Answered(val, reply), reply, Defaults(callerSetting)))

ValListReply ==
    /\ val.pc = "list"
    /\ \E reply \in ListReplies :
         Proceed(AfterList(Answered(val, reply), reply, Defaults(callerSetting)))

\* await validator.validate() of the assertion engine resolves, or rejects
ValEngineDone ==
    /\ val.pc = "engine"
    /\ ~crashed
    /\ \E outcome \in {"returned", "threw"} :
         Proceed([val EXCEPT !.pc = outcome,
                             !.error = IF outcome = "threw" THEN "engine" ELSE ""])

\* The stub server validate constructed listens (server.listen(port) in the
\* constructor) and serves requests while validate awaits the assertion engine
Listening == val.stubStarted /\ val.pc = "engine"

\* What the system under test sends the stub server of the run: it asks for a
\* token, and it sends a RequestCreated event with the token it was issued
InboundRequests ==
    {Request("POST", <<"auth", "token">>, Basic(<<"user", "pw">>), FormUrlEncoded,
             TextBody)}
    \cup BackgroundRequests

\* A request of the system under test arrives: the request listener runs
ValInboundReceive ==
    /\ Listening
    /\ ~crashed
    /\ reqs[1].state = "free"
    /\ \E request \in InboundRequests, draw \in RandomDraws :
         LET slot == Dispatch([FreeSlot EXCEPT !.in = request, !.at = now], now,
                              setting, draw)
         IN  /\ reqs' = [reqs EXCEPT ![1] = slot]
             /\ crashed' = Escaped(slot)
    /\ UNCHANGED <<tokenVars, setting, valVars>>

ValInboundBodyEnd == Listening /\ StubBodyEnd(1)

ValInboundAuthReply == Listening /\ StubAuthReply(1)

ValInboundEventsReply == Listening /\ StubEventsReply(1)

ValInboundClose == Listening /\ StubClose(1)

(***************************************************************************)
(* Specifications.                                                         *)
(***************************************************************************)
Init == TokenInit /\ StubInit /\ ValidatorIdle

\* The Token Service alone
TokenNext ==
    \/ TokTick
    \/ TokIssue
    \/ TokPresent
    \/ TokVerify

SpecToken == Init /\ [][TokenNext]_vars

\* The stub server
Next ==
    \/ StubTick
    \/ \E i \in DOMAIN reqs : StubReceive(i)
    \/ \E i \in DOMAIN reqs : StubBodyEnd(i)
    \/ \E i \in DOMAIN reqs : StubBodyError(i)
    \/ \E i \in DOMAIN reqs : StubAuthReply(i)
    \/ \E i \in DOMAIN reqs : StubEventsReply(i)
    \/ \E i \in DOMAIN reqs : StubClose(i)

Spec == Init /\ [][Next]_vars

\* The stub server with several RequestCreated events in flight
InitConcurrent == TokenInit /\ ConcurrentInit /\ ValidatorIdle

ConcurrentNext ==
    \/ \E i \in DOMAIN reqs : ConcReceive(i)
    \/ \E i \in DOMAIN reqs : StubBodyEnd(i)
    \/ \E i \in DOMAIN reqs : ConcAuthReply(i)
    \/ \E i \in DOMAIN reqs : StubEventsReply(i)
    \/ \E i \in DOMAIN reqs : StubClose(i)

SpecConcurrent == InitConcurrent /\ [][ConcurrentNext]_vars

\* The stub server with any listeners attached
SubscribersInit ==
    /\ callerSetting = FullSetting
    /\ val \in {[IdleRun EXCEPT !.listeners = listeners] : listeners \in SubscriberSets}

InitSubscribers == TokenInit /\ StubInit /\ SubscribersInit

SubscribersNext ==
    \/ \E i \in DOMAIN reqs : SubReceive(i)
    \/ \E i \in DOMAIN reqs : StubBodyEnd(i)
    \/ \E i \in DOMAIN reqs : StubBodyError(i)
    \/ \E i \in DOMAIN reqs : StubClose(i)

SpecSubscribers == InitSubscribers /\ [][SubscribersNext]_vars

\* The orchestrator
InitValidator == TokenInit /\ ValidatorInit

ValidatorNext ==
    \/ ValStart
    \/ ValDiscoveryReply
    \/ ValNegativeAuthReply
    \/ ValPositiveAuthReply
    \/ ValListReply
    \/ ValInboundReceive
    \/ ValInboundBodyEnd
    \/ ValInboundAuthReply
    \/ ValInboundEventsReply
    \/ ValInboundClose
    \/ ValEngineDone

SpecValidator == InitValidator /\ [][ValidatorNext]_vars


(***************************************************************************)
(* Properties.                                                             *)
(***************************************************************************)
Kinds(calls) == [n \in 1..Len(calls) |-> calls[n].kind]

IsPrefix(short, long) ==
    /\ Len(short) <= Len(long)
    /\ \A n \in 1..Len(short) : short[n] = long[n]

\* The request carries a Bearer token that verify accepts on arrival
ArrivedAuthorized(slot) ==
    /\ slot.in.authorization.scheme = "Bearer"
    /\ verifyJwtToken(slot.in.authorization.token, slot.at)

\* The body is a JSON object sent as CloudEvents JSON
CarriesEvent(request) ==
    /\ request.body.present
    /\ request.body.text = "json"
    /\ request.body.kind = "object"
    /\ request.contentType # NULL
    /\ IsCloudEventsType(request.contentType)

\* The request is a valid RequestCreated event
ValidCreated(request) ==
    /\ CarriesEvent(request)
    /\ request.body.ev.type = RequestCreated
    /\ request.body.ev.id # NULL
    /\ request.body.ev.source # NULL
    /\ ~request.body.ev.data.isNull
    /\ ~request.body.ev.data.pfNull

\* C1: a valid RequestCreated event is answered 200 before any outbound call;
\* the first outbound call is the authentication at the configured destination
\* auth endpoint; once that has succeeded exactly one Fulfilled event is
\* POSTed to the destination events endpoint, its data.requestEventId the id
\* of the original event and its data.pfs[0] carrying every field of the
\* request's pf fragment, over the generated defaults.
C1_CreatedCallback ==
    \A i \in DOMAIN reqs :
        LET slot == reqs[i]
            ev == slot.in.body.ev
            destination == setting.destinationServer
        IN  /\ (/\ IsEventsUrl(slot.in.url) /\ ArrivedAuthorized(slot)
                /\ ValidCreated(slot.in) /\ slot.stream = "end")
               => slot.status = 200 /\ slot.out # <<>>
            /\ slot.out # <<>> =>
                 /\ slot.status = 200
                 /\ ValidCreated(slot.in)
                 /\ slot.out[1].kind = "auth"
                 /\ slot.out[1].url = <<destination.authContextPath, destination.authPath>>
                 /\ slot.out[1].userName = destination.userName
                 /\ slot.out[1].password = destination.password
            /\ Len(slot.out) <= 2
            /\ (/\ slot.replies # <<>> /\ ~slot.replies[1].failed
                /\ slot.replies[1].status = 200 /\ slot.replies[1].accessToken # NULL)
               <=> Len(slot.out) = 2
            /\ Len(slot.out) = 2 =>
                 LET call == slot.out[2]
                 IN  /\ call.kind = "events"
                     /\ call.url = <<destination.dataContextPath,
                                     destination.pathPrefex, "/events">>
                     /\ call.bearer = slot.replies[1].accessToken
                     /\ call.event.type = RequestFulfilled
                     /\ call.event.data.requestEventId = ev.id
                     /\ Len(call.event.data.pfs) = 1
                     /\ \A key \in DOMAIN ev.data.pf :
                          /\ key \in DOMAIN call.event.data.pfs[1]
                          /\ call.event.data.pfs[1][key] = ev.data.pf[key]

\* C1 witness: the call-back was sent and accepted, its footprint carrying
\* the companyIds of the fragment and not those of the configured stub data
C1_Witness ==
    \E i \in DOMAIN reqs :
        /\ reqs[i].state = "done"
        /\ reqs[i].emits = <<"data">>
        /\ Len(reqs[i].out) = 2
        /\ "companyIds" \in DOMAIN setting.data
        /\ reqs[i].out[2].event.data.pfs[1].companyIds = "urn:uuid:A"
        /\ reqs[i].out[2].event.data.pfs[1].productIds = "urn:gtin:S"

\* C2: when an outbound call of the RequestCreated handling is answered with
\* a status other than 200, an error event is emitted for the request and no
\* outbound call is repeated.
C2_OutboundFailureEmitsError ==
    \A i \in DOMAIN reqs :
        LET slot == reqs[i]
        IN  (\E n \in 1..Len(slot.replies) :
                ~slot.replies[n].failed /\ slot.replies[n].status # 200)
            => /\ \E n \in 1..Len(slot.emits) : slot.emits[n] = "error"
               /\ Len(slot.out) = Len(slot.replies)
               /\ \A m, n \in 1..Len(slot.out) :
                    slot.out[m].kind = slot.out[n].kind => m = n

\* C3: once validate has reported a hard failure it has returned: the calls
\* made are those up to the failing step and none is in flight, the stub
\* server is not constructed, no test case is assembled and the assertion
\* engine is not started.
C3_FailFast ==
    val.ng # <<>> =>
        /\ val.pc = "returned"
        /\ Len(val.ng) = 1
        /\ val.inFlight = {}
        /\ ~val.stubStarted
        /\ setting = NoSetting
        /\ val.listeners = {}
        /\ val.testCases = <<>>
        /\ ~val.engineStarted
        /\ Kinds(val.calls) =
             CASE val.ng[1] = "Success response was obtained despite incorrect credentials."
                    -> <<"discovery", "negativeAuth">>
               [] val.ng[1] \in {"Authentication failed.", "Access token is empty."}
                    -> <<"discovery", "negativeAuth", "positiveAuth">>
               [] OTHER
                    -> <<"discovery", "negativeAuth", "positiveAuth", "list">>

\* C3 witness: the negative auth check was answered 200 with events support
\* claimed
C3_Witness ==
    /\ val.ng = <<"Success response was obtained despite incorrect credentials.">>
    /\ callerSetting.eventsSupport = "true"
    /\ Len(val.calls) = 2

\* C4: the calls validate makes are, in this order, discovery, negative auth
\* check, positive auth check, list footprints; at most one is in flight, and
\* it is the last one made.
C4_Sequential ==
    /\ IsPrefix(Kinds(val.calls), <<"discovery", "negativeAuth", "positiveAuth", "list">>)
    /\ Cardinality(val.inFlight) <= 1
    /\ val.inFlight # {} =>
         /\ val.calls # <<>>
         /\ val.inFlight = {val.calls[Len(val.calls)].kind}
         /\ val.pc = val.calls[Len(val.calls)].kind

\* C4 witness: the list of footprints is awaited, the three calls before it
\* answered
C4_Witness ==
    /\ val.pc = "list"
    /\ Kinds(val.calls) = <<"discovery", "negativeAuth", "positiveAuth", "list">>
    /\ val.inFlight = {"list"}

\* C5: a request to /2/footprints, /2/footprints/{id} or /2/events whose
\* Authorization header is missing, is not a Bearer header or carries a token
\* verify refuses is answered 403 AccessDenied at once, and nothing else is
\* done for it: no 200, no token or footprint, no data event, no outbound call.
C5_Unauthorized ==
    \A i \in DOMAIN reqs :
        LET slot == reqs[i]
        IN  (/\ slot.state # "free"
             /\ IsFootprintsUrl(slot.in.url) \/ IsEventsUrl(slot.in.url)
             /\ ~ArrivedAuthorized(slot))
            => /\ slot.state = "done"
               /\ slot.status = 403
               /\ slot.code = "AccessDenied"
               /\ slot.stream = "open"
               /\ slot.token = NoToken
               /\ slot.out = <<>>
               /\ slot.emits = <<"error">>

\* C5 witness: a RequestCreated event sent with a three-part Bearer token
\* that verify refuses
C5_Witness ==
    \E i \in DOMAIN reqs :
        /\ reqs[i].status = 403
        /\ IsEventsUrl(reqs[i].in.url)
        /\ reqs[i].in.authorization.scheme = "Bearer"
        /\ Len(reqs[i].in.authorization.token) = 3
        /\ ValidCreated(reqs[i].in)

\* C6: the token generateJwtToken returned at issuedAt is accepted by
\* verifyJwtToken at every time up to its expiry, one hour after the second
\* of its issue, and refused at every time after it.
C6_ValidUntilExpiry ==
    (verdict # "none" /\ lastToken # NoToken /\ presented = lastToken)
    => /\ now >= issuedAt
       /\ verdict = "ok" <=> now <= ((issuedAt \div 1000) + 60 * 60) * 1000

\* C6 witness: the token is accepted at the instant of its expiry
C6_Witness ==
    /\ verdict = "ok"
    /\ lastToken # NoToken
    /\ presented = lastToken
    /\ now > issuedAt
    /\ now = ((issuedAt \div 1000) + 60 * 60) * 1000

\* C7: a token verifyJwtToken accepts has three parts, the JWT/HS256 header,
\* numbers as iss and exp, and as signature the keyed hash of its header and
\* claims; a token that carries the signature of an issued token carries its
\* header and claims.
C7_VerifyRejects ==
    verdict = "ok" =>
        /\ Len(presented) = 3
        /\ presented[1].k = "json"
        /\ presented[2].k = "json"
        /\ Field(presented[1].obj, "typ") = "JWT"
        /\ Field(presented[1].obj, "alg") = "HS256"
        /\ Field(presented[2].obj, "issNum") = TRUE
        /\ Field(presented[2].obj, "expNum") = TRUE
        /\ presented[3] = [k |-> "mac", key |-> "GrSRLR3p",
                           msg |-> <<[presented[1] EXCEPT !.form = "canon"],
                                     [presented[2] EXCEPT !.form = "canon"]>>]
        /\ (lastToken # NoToken /\ presented[3] = lastToken[3])
           => /\ presented[1].obj = lastToken[1].obj
              /\ presented[2].obj = lastToken[2].obj

\* C7 witness: the claims of an issued token were altered to a later expiry,
\* the signature kept, and the token refused before either expiry
C7_Witness ==
    /\ verdict = "InvalidToken"
    /\ lastToken # NoToken
    /\ Len(presented) = 3
    /\ presented[1] = lastToken[1]
    /\ presented[3] = lastToken[3]
    /\ presented[2].k = "json"
    /\ presented[2].obj.exp > lastToken[2].obj.exp
    /\ now < lastToken[2].obj.exp * 1000

\* A token as generateJwtToken makes them
IssuedToken(token) ==
    /\ Len(token) = 3
    /\ token[2].k = "json"
    /\ token = generateJwtToken(token[2].obj.iss * MsPerSec)

\* C8: /auth/token answers every request it received whose Basic header
\* decodes to a pair with 200 and a token, whatever the pair and the
\* configured credentials; a token so made is accepted as Bearer token by
\* /2/footprints and /2/events up to its expiry.
C8_TokenRoute ==
    \A i \in DOMAIN reqs :
        LET slot == reqs[i]
        IN  /\ (/\ IsAuthTokenUrl(slot.in.url)
                /\ slot.in.authorization.scheme = "Basic"
                /\ Len(slot.in.authorization.cred) = 2
                /\ slot.stream = "end")
               => /\ slot.status = 200
                  /\ IssuedToken(slot.token)
            /\ (/\ slot.state # "free"
                /\ IsFootprintsUrl(slot.in.url) \/ IsEventsUrl(slot.in.url)
                /\ slot.in.authorization.scheme = "Bearer"
                /\ IssuedToken(slot.in.authorization.token)
                /\ slot.at <= slot.in.authorization.token[2].obj.exp * 1000)
               => slot.status # 403 /\ slot.status # 401

\* A structural violation of an event request, as the specification lists them
StructuralViolation(request) ==
    \/ ~request.body.present
    \/ request.body.text # "json"
    \/ request.contentType = NULL
    \/ ~IsCloudEventsType(request.contentType)
    \/ request.body.kind # "object"
    \/ request.body.ev.type = NULL
    \/ request.body.ev.id = NULL
    \/ request.body.ev.source = NULL
    \/ /\ request.body.ev.type = RequestCreated
       /\ request.body.ev.data.isNull \/ request.body.ev.data.pfNull
    \/ /\ request.body.ev.type = RequestFulfilled
       /\ \/ request.body.ev.data.isNull
          \/ request.body.ev.data.requestEventId = NULL
          \/ request.body.ev.data.pfsNull
          \/ request.body.ev.data.pfs = <<>>
    \/ /\ request.body.ev.type = RequestRejected
       /\ \/ request.body.ev.data.isNull
          \/ request.body.ev.data.requestEventId = NULL
          \/ request.body.ev.data.error.isNull
          \/ request.body.ev.data.error.code \notin ErrorCodes
          \/ request.body.ev.data.error.message = NULL

\* C9: an authorized /2/events request with a structural violation, its
\* stream ended, is answered 400 BadRequest and one error event is emitted.
C9_StructuralViolation ==
    \A i \in DOMAIN reqs :
        LET slot == reqs[i]
        IN  (/\ IsEventsUrl(slot.in.url)
             /\ ArrivedAuthorized(slot)
             /\ slot.stream = "end"
             /\ StructuralViolation(slot.in))
            => /\ slot.status = 400
               /\ slot.code = "BadRequest"
               /\ slot.emits = <<"error">>

\* C10: an authorized event whose type is none of the four recognized ones is
\* never answered 200 and never emitted as data event; once its body has
\* arrived it is answered 400 BadRequest and an error event is emitted.
C10_UnknownType ==
    \A i \in DOMAIN reqs :
        LET slot == reqs[i]
        IN  (/\ IsEventsUrl(slot.in.url)
             /\ slot.state # "free"
             /\ ArrivedAuthorized(slot)
             /\ CarriesEvent(slot.in)
             /\ slot.in.body.ev.type \notin
                  {Published, RequestCreated, RequestFulfilled, RequestRejected})
            => /\ slot.status # 200
               /\ slot.out = <<>>
               /\ \A n \in 1..Len(slot.emits) : slot.emits[n] # "data"
               /\ slot.stream = "end" => slot.state = "done"
               /\ slot.state = "done" =>
                    /\ slot.status = 400
                    /\ slot.code = "BadRequest"
                    /\ slot.emits = <<"error">>

\* C10 witness: such an event, otherwise a valid RequestCreated event, was
\* answered
C10_Witness ==
    \E i \in DOMAIN reqs :
        /\ reqs[i].state = "done"
        /\ reqs[i].stream = "end"
        /\ reqs[i].status = 400
        /\ reqs[i].in.body.ev.type = "org.wbcsd.pathfinder.Unknown.v1"
        /\ ~reqs[i].in.body.ev.data.pfNull

\* An authorized event request whose body, a JSON object sent as CloudEvents
\* JSON, has arrived
AuthorizedEvent(slot) ==
    /\ IsEventsUrl(slot.in.url)
    /\ ArrivedAuthorized(slot)
    /\ CarriesEvent(slot.in)
    /\ slot.stream = "end"

\* C11: an authorized event that lacks type, id, source or time is rejected
\* with 400 before it is acknowledged and before any outbound call is made.
C11_EnvelopeRequired ==
    \A i \in DOMAIN reqs :
        LET slot == reqs[i]
            ev == slot.in.body.ev
        IN  (/\ AuthorizedEvent(slot)
             /\ ev.type = NULL \/ ev.id = NULL \/ ev.source = NULL \/ ev.time = NULL)
            => /\ slot.status = 400
               /\ slot.out = <<>>
               /\ \A n \in 1..Len(slot.emits) : slot.emits[n] # "data"

\* The Authorization header is no well-formed Basic header
NotBasicPair(authorization) ==
    authorization.scheme # "Basic" \/ Len(authorization.cred) # 2

\* C12 as stated: every authorization violation, those at /auth/token
\* included, is answered 403 with the code AccessDenied.
C12_AllForbidden ==
    \A i \in DOMAIN reqs :
        LET slot == reqs[i]
        IN  (/\ slot.state # "free"
             /\ \/ IsAuthTokenUrl(slot.in.url) /\ NotBasicPair(slot.in.authorization)
                \/ /\ IsFootprintsUrl(slot.in.url) \/ IsEventsUrl(slot.in.url)
                   /\ ~ArrivedAuthorized(slot))
            => slot.status = 403 /\ slot.code = "AccessDenied"

\* C12 amended: an authorization violation at /2/footprints... and /2/events
\* is answered 403 with the code AccessDenied; a missing or malformed Basic
\* header at /auth/token is answered 401 with a plain-text message; either
\* way the response is the only one and an error event is emitted.
C12_ForbiddenOrUnauthorized ==
    \A i \in DOMAIN reqs :
        LET slot == reqs[i]
        IN  /\ (/\ slot.state # "free"
                /\ IsFootprintsUrl(slot.in.url) \/ IsEventsUrl(slot.in.url)
                /\ ~ArrivedAuthorized(slot))
               => slot.status = 403 /\ slot.code = "AccessDenied"
            /\ (/\ slot.state # "free"
                /\ IsAuthTokenUrl(slot.in.url)
                /\ NotBasicPair(slot.in.authorization))
               => /\ slot.status = 401
                  /\ slot.code = ""
                  /\ slot.token = NoToken
                  /\ slot.emits = <<"error">>
                  /\ slot.threw = ""

\* C12 witness: a Basic header of three parts at /auth/token was answered 401
C12_Witness ==
    \E i \in DOMAIN reqs :
        /\ IsAuthTokenUrl(reqs[i].in.url)
        /\ reqs[i].in.authorization.scheme = "Basic"
        /\ Len(reqs[i].in.authorization.cred) = 3
        /\ reqs[i].status = 401

\* The request is for a route of the table, with the method of the table
Routed(request) ==
    \/ request.url = <<"auth", "token">> /\ request.method = "POST"
    \/ /\ request.method = "GET"
       /\ Len(request.url) \in {2, 3}
       /\ request.url[1] = "2"
       /\ request.url[2] \in {"footprints", "footprints?limit=1"}
    \/ request.url = <<"2", "events">> /\ request.method = "POST"

\* C13: a request for a path that is no route, or for a route with another
\* method, is answered 404 and reaches no handler: no token, no footprint,
\* no event, no outbound call.
C13_OnlyTheRoutes ==
    \A i \in DOMAIN reqs :
        LET slot == reqs[i]
        IN  (slot.state # "free" /\ ~Routed(slot.in))
            => /\ slot.state = "done"
               /\ slot.status = 404
               /\ slot.token = NoToken
               /\ slot.sent = NothingSent
               /\ slot.emits = <<>>
               /\ slot.out = <<>>

\* C14: an authorized GET on a footprint path ending in a UUID-shaped segment
\* is answered 200 with the footprint whose id is that segment; on any other
\* footprint path it is answered 200 with a list of exactly one footprint.
C14_FootprintOrList ==
    \A i \in DOMAIN reqs :
        LET slot == reqs[i]
            url == slot.in.url
        IN  (/\ slot.state # "free"
             /\ IsFootprintsUrl(url)
             /\ slot.in.method = "GET"
             /\ ArrivedAuthorized(slot))
            => /\ slot.state = "done"
               /\ slot.status = 200
               /\ slot.emits = <<>>
               /\ Len(slot.sent.data) = 1
               /\ IF Len(url) = 3 /\ url[3] = "3fae5c0a-0000-4000-8000-000000000001"
                  THEN slot.sent.shape = "single" /\ slot.sent.data[1].id = url[3]
                  ELSE slot.sent.shape = "list"

\* C14 witness: the footprint was asked for by id of a stub configured with
\* another id
C14_Witness ==
    \E i \in DOMAIN reqs :
        /\ reqs[i].in.method = "GET"
        /\ reqs[i].sent.shape = "single"
        /\ "id" \in DOMAIN setting.data
        /\ reqs[i].sent.data[1].id # setting.data.id
        /\ reqs[i].sent.data[1].companyIds = setting.data.companyIds

\* C15: an authorized RequestFulfilled event with id and source is answered
\* 200, and emitted whole as a data event, exactly when data.requestEventId
\* is present and data.pfs is present and not empty; else it is answered 400
\* BadRequest and no data event is emitted.
C15_Fulfilled ==
    \A i \in DOMAIN reqs :
        LET slot == reqs[i]
            ev == slot.in.body.ev
            complete == /\ ~ev.data.isNull
                        /\ ev.data.requestEventId # NULL
                        /\ ~ev.data.pfsNull
                        /\ Len(ev.data.pfs) > 0
        IN  (/\ AuthorizedEvent(slot)
             /\ ev.type = RequestFulfilled
             /\ ev.id # NULL /\ ev.source # NULL)
            => /\ slot.state = "done"
               /\ slot.out = <<>>
               /\ IF complete
                  THEN /\ slot.status = 200
                       /\ slot.emits = <<"data">>
                       /\ slot.payload = slot.in.body
                  ELSE /\ slot.status = 400
                       /\ slot.code = "BadRequest"
                       /\ slot.emits = <<"error">>
                       /\ slot.payload = NoBody

\* C15 witness: a RequestFulfilled event with one footprint was emitted
C15_Witness ==
    \E i \in DOMAIN reqs :
        /\ reqs[i].emits = <<"data">>
        /\ reqs[i].payload.ev.type = RequestFulfilled
        /\ Len(reqs[i].payload.ev.data.pfs) = 1
        /\ reqs[i].status = 200

\* C16: an authorized RequestRejected event with id and source is answered
\* 200 only if data.requestEventId is present and data.error has a message
\* and one of the six codes; in every other case it is answered 400.
C16_Rejected ==
    \A i \in DOMAIN reqs :
        LET slot == reqs[i]
            ev == slot.in.body.ev
            complete == /\ ~ev.data.isNull
                        /\ ev.data.requestEventId # NULL
                        /\ ~ev.data.error.isNull
                        /\ ev.data.error.message # NULL
                        /\ ev.data.error.code \in
                             {"AccessDenied", "BadRequest", "NoSuchFootprint",
                              "NotImplemented", "TokenExpired", "InternalError"}
        IN  (/\ AuthorizedEvent(slot)
             /\ ev.type = RequestRejected
             /\ ev.id # NULL /\ ev.source # NULL)
            => /\ slot.state = "done"
               /\ slot.status = 200 => complete
               /\ ~complete => slot.status = 400 /\ slot.code = "BadRequest"

\* C16 witness: a RequestRejected event with a code outside the six was
\* answered 400
C16_Witness ==
    \E i \in DOMAIN reqs :
        /\ reqs[i].in.body.ev.type = RequestRejected
        /\ reqs[i].in.body.ev.data.error.code = "Teapot"
        /\ reqs[i].in.body.ev.data.error.message # NULL
        /\ reqs[i].status = 400

\* C17: handling an authorized Published event makes no outbound call: no
\* authentication, no call-back; the event is answered 200.
C17_PublishedOnlyAcknowledged ==
    \A i \in DOMAIN reqs :
        LET slot == reqs[i]
            ev == slot.in.body.ev
        IN  (/\ AuthorizedEvent(slot)
             /\ ev.type = Published
             /\ ev.id # NULL /\ ev.source # NULL)
            => /\ slot.state = "done"
               /\ slot.status = 200
               /\ slot.out = <<>>
               /\ slot.replies = <<>>

\* C17 witness: a Published event was answered 200
C17_Witness ==
    \E i \in DOMAIN reqs :
        /\ reqs[i].state = "done"
        /\ reqs[i].in.body.ev.type = Published
        /\ reqs[i].in.method = "POST"
        /\ reqs[i].status = 200

\* C18: when the grant made with the random user name and password is
\* answered 200, validate logs the NG line and returns: the positive auth
\* check and every later step are not performed.
C18_NegativeAuthAccepted ==
    (/\ Len(val.replies) >= 2
     /\ ~val.replies[2].failed
     /\ val.replies[2].status = 200)
    => /\ val.calls[2].authorization.scheme = "Basic"
       /\ val.calls[2].authorization.cred = <<"random-16-user", "random-16-password">>
       /\ val.ng = <<"Success response was obtained despite incorrect credentials.">>
       /\ val.pc = "returned"
       /\ Len(val.calls) = 2
       /\ Len(val.replies) = 2
       /\ val.accessToken = NULL
       /\ val.testCases = <<>>
       /\ ~val.stubStarted
       /\ ~val.engineStarted

\* C18 witness: the 200 carried no token
C18_Witness ==
    /\ Len(val.replies) = 2
    /\ val.replies[2].status = 200
    /\ val.replies[2].accessToken = NULL
    /\ val.pc = "returned"

\* C19: when the grant made with the configured credentials is answered with
\* a status other than 200, or with 200 and no access_token, validate logs an
\* NG line and returns, and the list of footprints is never requested.
C19_PositiveAuthFailed ==
    (/\ Len(val.replies) >= 3
     /\ ~val.replies[3].failed
     /\ \/ val.replies[3].status # 200
        \/ val.replies[3].bodyNull
        \/ val.replies[3].accessToken = NULL)
    => /\ Len(val.ng) = 1
       /\ val.ng[1] \in {"Authentication failed.", "Access token is empty."}
       /\ val.pc = "returned"
       /\ Len(val.calls) = 3

\* C20: when the list of footprints is answered with a status other than 200
\* and 202, or without body, without data or with an empty data list,
\* validate logs an NG line and returns: no test case is assembled, no stub
\* server and no assertion engine is started.
C20_ListFailed ==
    (/\ Len(val.replies) >= 4
     /\ ~val.replies[4].failed
     /\ \/ val.replies[4].status \notin {200, 202}
        \/ val.replies[4].bodyNull
        \/ val.replies[4].dataNull
        \/ Len(val.replies[4].data) = 0)
    => /\ Len(val.ng) = 1
       /\ val.ng[1] \in {"Footprints acquisition failed.", "the data is empty."}
       /\ val.pc = "returned"
       /\ val.testCases = <<>>
       /\ ~val.stubStarted
       /\ ~val.engineStarted

\* C20 witness: the list was answered 202 with an empty data list
C20_Witness ==
    /\ Len(val.replies) = 4
    /\ val.replies[4].status = 202
    /\ ~val.replies[4].dataNull
    /\ val.replies[4].data = <<>>
    /\ val.ng = <<"the data is empty.">>


\* The list of footprints was answered 200 or 202 with a data list
ListArrived ==
    /\ Len(val.replies) >= 4
    /\ ~val.replies[4].failed
    /\ val.replies[4].status \in {200, 202}
    /\ ~val.replies[4].bodyNull
    /\ ~val.replies[4].dataNull

Listed == val.replies[4].data

\* C21: when the list holds exactly one record and filterSupport or
\* limitSupport is set, validate logs the NG line and returns without a
\* further request: no test case, no stub server, no assertion engine.
C21_SingleRecordRefused ==
    (/\ ListArrived
     /\ Len(Listed) = 1
     /\ \/ Defaults(callerSetting).filterSupport
        \/ Defaults(callerSetting).limitSupport)
    => /\ val.ng = <<"there is only one data set">>
       /\ val.pc = "returned"
       /\ Len(val.calls) = 4
       /\ val.inFlight = {}
       /\ val.testCases = <<>>
       /\ ~val.stubStarted
       /\ ~val.engineStarted

\* C21 witness: one record, limitSupport alone is set
C21_Witness ==
    /\ ListArrived
    /\ Len(Listed) = 1
    /\ callerSetting.limitSupport = "true"
    /\ callerSetting.filterSupport = NULL
    /\ val.ng = <<"there is only one data set">>

\* C22: when the list holds exactly one record and neither filterSupport nor
\* limitSupport is set, validate logs no NG line, assembles the list of test
\* cases and hands it to the assertion engine.
C22_SingleRecordProceeds ==
    (/\ ListArrived
     /\ Len(Listed) = 1
     /\ ~Defaults(callerSetting).filterSupport
     /\ ~Defaults(callerSetting).limitSupport)
    => /\ val.ng = <<>>
       /\ val.testCases = TestCaseTitles
       /\ val.engineStarted

Values(seq) == {seq[k] : k \in DOMAIN seq}

\* C23: when filterSupport is set and a list of two or more records has a
\* single created value or a single combination of product identifiers,
\* validate logs an NG line and returns: no test case, no stub server, no
\* assertion engine.
C23_NoVariationRefused ==
    (/\ ListArrived
     /\ Len(Listed) >= 2
     /\ Defaults(callerSetting).filterSupport
     /\ \/ Cardinality({Listed[k].created : k \in DOMAIN Listed}) = 1
        \/ Cardinality({Listed[k].productIds : k \in DOMAIN Listed}) = 1)
    => /\ Len(val.ng) = 1
       /\ val.ng[1] \in {"only one variation of the created",
                         "only one variation of the productIds"}
       /\ val.pc = "returned"
       /\ Len(val.calls) = 4
       /\ val.testCases = <<>>
       /\ ~val.stubStarted
       /\ ~val.engineStarted

\* C23 witness: two records with one created value and two combinations
C23_Witness ==
    /\ ListArrived
    /\ Len(Listed) = 2
    /\ Listed[1].created = Listed[2].created
    /\ Listed[1].productIds = <<"urn:gtin:1", "urn:gtin:2">>
    /\ Listed[2].productIds = <<"urn:gtin:1">>
    /\ Len(val.productIdsVariation) = 2
    /\ val.ng = <<"only one variation of the created">>

\* every element of the sequence inner is an element of the sequence outer
Within(inner, outer) == Values(inner) \subseteq Values(outer)

\* the sequence of the productIds of the records at the positions kept
RECURSIVE Recorded(_, _, _)
Recorded(records, kept, k) ==
    IF k > Len(records) THEN <<>>
    ELSE (IF k \in kept THEN <<records[k].productIds>> ELSE <<>>)
         \o Recorded(records, kept, k + 1)

\* the positions whose record is not a duplicate.  A record is a duplicate of
\* a combination recorded before when its own identifiers are all within that
\* combination (ownWithin), or when the identifiers of that combination are
\* all within its own.
KeptPositions(records, ownWithin) ==
    CHOOSE kept \in SUBSET DOMAIN records :
        \A k \in DOMAIN records :
            k \in kept <=>
                ~\E j \in kept :
                    /\ j < k
                    /\ IF ownWithin
                       THEN Within(records[k].productIds, records[j].productIds)
                       ELSE Within(records[j].productIds, records[k].productIds)

\* C24: productIdsVariation holds, in list order, the productIds of the
\* records that are no duplicate, a record being a duplicate exactly when
\* every one of its product identifiers appears in one combination recorded
\* before.
C24_DuplicateWhenWithinRecorded ==
    (ListArrived /\ Len(Listed) >= 2)
    => val.productIdsVariation =
         Recorded(Listed, KeptPositions(Listed, TRUE), 1)

\* C24 as amended: a record is a duplicate exactly when every product
\* identifier of one combination recorded before appears among the record's
\* own; the productIds of every other record are appended in list order.
C24_DuplicateWhenContainsRecorded ==
    (ListArrived /\ Len(Listed) >= 2)
    => val.productIdsVariation =
         Recorded(Listed, KeptPositions(Listed, FALSE), 1)

\* C24 witness: the second record holds the first one's identifier and one
\* more, and is skipped
C24_Witness ==
    /\ ListArrived
    /\ Len(Listed) = 2
    /\ Listed[1].productIds = <<"urn:gtin:1">>
    /\ Listed[2].productIds = <<"urn:gtin:1", "urn:gtin:2">>
    /\ val.productIdsVariation = <<<<"urn:gtin:1">>>>

\* C25: for a list of two records with different created values and no
\* product identifier in common, createdVariation and productIdsVariation
\* have two entries each.
C25_TwoDisjointRecords ==
    (/\ ListArrived
     /\ Len(Listed) = 2
     /\ Listed[1].created # Listed[2].created
     /\ Values(Listed[1].productIds) \cap Values(Listed[2].productIds) = {})
    => /\ Len(val.createdVariation) = 2
       /\ Len(val.productIdsVariation) = 2


\* where the discovery says the tokens are granted
TokenEndpointOf(reply, given) ==
    IF reply.status = 200 /\ ~reply.bodyNull /\ reply.tokenEndpoint # NULL
    THEN <<"", reply.tokenEndpoint>>
    ELSE <<given.authContextPath, "/auth/token">>

\* C26: once the discovery is answered, every authentication call is sent to
\* the token_endpoint of a 200 reply that has one, and to authContextPath +
\* "/auth/token" otherwise: the attempt with incorrect credentials, the
\* client-credentials grant, and the authentication the stub server makes
\* before its call-back.
C26_OneTokenEndpoint ==
    (Len(val.replies) >= 1 /\ ~val.replies[1].failed)
    => LET endpoint == TokenEndpointOf(val.replies[1], callerSetting)
       IN  /\ \A n \in DOMAIN val.calls :
                 val.calls[n].kind \in {"negativeAuth", "positiveAuth"}
                 => val.calls[n].url = endpoint
           /\ \A i \in DOMAIN reqs : \A k \in DOMAIN reqs[i].out :
                 reqs[i].out[k].kind = "auth" => reqs[i].out[k].url = endpoint

\* C26 witness: the discovery named a token_endpoint, both grants were
\* requested and the stub server authenticates for a RequestCreated event
C26_Witness ==
    /\ Len(val.calls) = 4
    /\ val.replies[1].status = 200
    /\ val.replies[1].tokenEndpoint = "https://idp.example/oauth/token"
    /\ val.calls[2].url = <<"", "https://idp.example/oauth/token">>
    /\ val.calls[3].url = <<"", "https://idp.example/oauth/token">>
    /\ reqs[1].state = "authCall"
    /\ reqs[1].in.body.ev.type = RequestCreated
    /\ reqs[1].out[1].url = <<"", "https://idp.example/oauth/token">>

\* C27: with a version whose major is neither 1 nor 2, validate throws
\* without having made any outbound request.
C27_VersionBeforeNetwork ==
    (MajorOf(callerSetting.version) = "other" /\ val.pc # "idle")
    => /\ val.pc = "threw"
       /\ val.calls = NoCalls

\* C28: when validate logged an NG line and stopped, the process ends with a
\* code other than 0; it ends with 0 only when no check failed.
C28_ExitCodeReflectsFailure ==
    Exits(val, callerSetting)
    => /\ val.ng # <<>> => ExitCode(val) # 0
       /\ ExitCode(val) = 0 => val.ng = <<>> /\ val.pc = "returned"

\* the run stopped on a hard failure: an NG line, or an error of the
\* configuration or of the transport
HardFailed ==
    \/ val.ng # <<>>
    \/ val.pc = "threw" /\ ~val.engineStarted /\ val.error # "TypeError"
    \/ val.pc = "threw" /\ val.error = "TypeError" /\ Len(val.replies) = 3

\* C29: once validate is past the list of footprints, the stub server is
\* started exactly when eventsSupport is set and no hard failure occurred;
\* when it is started, its data and error subscribers are attached and the
\* assertion engine has the test cases, and a request is handled only with
\* both subscribers attached.
C29_StubStartedWithSubscribers ==
    /\ (val.pc \in {"engine", "returned", "threw"})
       => (val.stubStarted <=> Defaults(callerSetting).eventsSupport /\ ~HardFailed)
    /\ val.stubStarted => val.listeners = {"data", "error"} /\ val.engineStarted
    /\ \A i \in DOMAIN reqs :
          reqs[i].state # "free" => val.listeners = {"data", "error"}


\* connection i has sent its call-back
CalledBack(i) == Len(reqs[i].out) = 2 /\ reqs[i].out[2].kind = "events"

\* C30: with several RequestCreated events in flight, every Fulfilled
\* call-back carries the id and the pf fragment of the event of its own
\* connection and the token granted to its own authentication, whatever the
\* order of the steps of the connections; it carries the id, the fragment or
\* the token of another connection only where they are the same.
C30_OwnRequestOwnToken ==
    \A i \in DOMAIN reqs :
        CalledBack(i) =>
            LET own == reqs[i].in.body.ev
                call == reqs[i].out[2]
            IN  /\ ValidCreated(reqs[i].in)
                /\ call.event.data.requestEventId = own.id
                /\ call.event.data.requestEventId = "event-" \o ToString(i)
                /\ Len(call.event.data.pfs) = 1
                /\ \A key \in DOMAIN own.data.pf :
                     /\ key \in DOMAIN call.event.data.pfs[1]
                     /\ call.event.data.pfs[1][key] = own.data.pf[key]
                /\ call.event.data.pfs[1].companyIds = "urn:uuid:company-" \o ToString(i)
                /\ call.bearer = AccessTokenOf(reqs[i].replies[1])
                /\ \A j \in DOMAIN reqs \ {i} :
                     reqs[j].state \in {"authCall", "eventsCall"}
                     => call.event.data.requestEventId # reqs[j].in.body.ev.id

\* C30 witness: two call-backs are in flight at once, the one of the second
\* connection authenticated first and with another token
C30_Witness ==
    /\ reqs[1].state = "eventsCall"
    /\ reqs[2].state = "eventsCall"
    /\ CalledBack(1)
    /\ CalledBack(2)
    /\ reqs[1].out[2].bearer = "destination-token-2"
    /\ reqs[2].out[2].bearer = "destination-token"
    /\ reqs[1].out[2].event.data.requestEventId = "event-1"
    /\ reqs[2].out[2].event.data.requestEventId = "event-2"


\* C31: a request answered 400 or 403 leaves the stub server running,
\* whichever listeners are attached: the requests that follow are received
\* and answered.
C31_RejectionKeepsServing ==
    \A i \in DOMAIN reqs :
        reqs[i].status \in {400, 403} => ~crashed


\* the token connection i was granted, NULL when it was granted none
GrantedTo(i) ==
    IF reqs[i].replies = <<>> THEN NULL ELSE AccessTokenOf(reqs[i].replies[1])

\* C32: every RequestCreated event the stub server handles makes its own
\* authentication call first, and the Bearer token of its call-back is the
\* one that call was granted, not a token granted for another event.
C32_NoTokenCache ==
    \A i \in DOMAIN reqs :
        LET slot == reqs[i]
        IN  /\ (ValidCreated(slot.in) /\ slot.stream = "end")
               => slot.out # <<>> /\ slot.out[1].kind = "auth"
            /\ \A k \in DOMAIN slot.out :
                 slot.out[k].kind = "events"
                 => /\ k = 2
                    /\ slot.out[1].kind = "auth"
                    /\ GrantedTo(i) # NULL
                    /\ slot.out[k].bearer = GrantedTo(i)
                    /\ \A j \in DOMAIN reqs \ {i} :
                         GrantedTo(j) # GrantedTo(i)
                         => slot.out[k].bearer # GrantedTo(j)

\* C32 witness: the second connection is through with a call-back under one
\* token while the first calls back under the other
C32_Witness ==
    /\ reqs[2].state = "done"
    /\ reqs[2].emits = <<"data">>
    /\ reqs[2].out[2].bearer = "destination-token"
    /\ reqs[1].state = "eventsCall"
    /\ reqs[1].out[1].kind = "auth"
    /\ reqs[1].out[2].bearer = "destination-token-2"

\* the authentication call of the slot was answered, and not with a token
AuthenticationFailed(slot) ==
    /\ slot.replies # <<>>
    /\ \/ slot.replies[1].failed
       \/ slot.replies[1].status # 200
       \/ slot.replies[1].accessToken = NULL

\* C35: the stub server POSTs the Fulfilled event only after its
\* authentication call was answered 200 with an access_token; when that call
\* fails, is answered with another status or without access_token, no event
\* is POSTed for the request.
C35_CallbackOnlyAuthenticated ==
    \A i \in DOMAIN reqs :
        LET slot == reqs[i]
        IN  /\ (\E k \in DOMAIN slot.out : slot.out[k].kind = "events")
               => /\ slot.replies # <<>>
                  /\ ~AuthenticationFailed(slot)
            /\ AuthenticationFailed(slot)
               => /\ slot.state = "done"
                  /\ Len(slot.replies) = 1
                  /\ \A k \in DOMAIN slot.out : slot.out[k].kind # "events"

\* C35 witness: the authentication was answered 500 with an access_token in
\* the body, and no event was POSTed
C35_Witness ==
    \E i \in DOMAIN reqs :
        /\ reqs[i].replies # <<>>
        /\ reqs[i].replies[1].status = 500
        /\ reqs[i].replies[1].accessToken = "destination-token"
        /\ Len(reqs[i].out) = 1
        /\ reqs[i].state = "done"


\* the event has the fields of the envelope
Enveloped(event) ==
    /\ {"type", "specversion", "id", "source", "time", "data"} \subseteq DOMAIN event
    /\ event.type # NULL
    /\ event.specversion = "1.0"
    /\ event.id # NULL
    /\ event.source # NULL
    /\ event.time # NULL

\* C33: every event the tool sends has type, specversion "1.0", id, source,
\* time and data: the Published and RequestCreated events of the test cases,
\* and the Fulfilled event the stub server calls back with.
C33_EventsEnveloped ==
    /\ \A type \in {Published, RequestCreated}, prefix \in {"/0", "/2"} :
          Enveloped(TestEvent(type, Defaults(callerSetting), prefix))
    /\ \A i \in DOMAIN reqs : \A k \in DOMAIN reqs[i].out :
          reqs[i].out[k].kind = "events" => Enveloped(reqs[i].out[k].event)

\* C36: the response of a request is written once: when it has been written,
\* nothing writes a status on it again, whatever fails afterwards.
C36_ResponseWrittenOnce ==
    \A i \in DOMAIN reqs : reqs[i].threw # "ERR_HTTP_HEADERS_SENT"

\* C37: a request whose handling is over has been answered, with 200, 400,
\* 401, 403 or 404, also when its body does not parse as the JSON it is
\* declared to be.
C37_EveryRequestAnswered ==
    \A i \in DOMAIN reqs :
        reqs[i].state = "done" => reqs[i].status \in {200, 400, 401, 403, 404}

\* handling the event of the slot went through without an error
HandledWithoutError(slot) ==
    /\ slot.status = 200
    /\ slot.threw = ""
    /\ slot.out # <<>> =>
          /\ Len(slot.replies) = 2
          /\ \A n \in 1..2 : ~slot.replies[n].failed /\ slot.replies[n].status = 200

\* C38: when the handling of an authorized event is over, exactly one event
\* was emitted for it: data when the handling went through without an error
\* (for RequestCreated, after both outbound calls succeeded), else error.
C38_OneSubscriberEvent ==
    \A i \in DOMAIN reqs :
        LET slot == reqs[i]
        IN  (AuthorizedEvent(slot) /\ slot.state = "done")
            => /\ slot.emits \in {<<"data">>, <<"error">>}
               /\ slot.emits = <<"data">> <=> HandledWithoutError(slot)

\* the path of the request an event sent to the address source arrives with
PathTo(source) ==
    IF source[2] = "/0" THEN <<"0", "events">> ELSE <<"2", "events">>

\* C39: for version 1 (prefix /0) and version 2 (prefix /2), the address the
\* event test cases give as source, stubContextPath + prefix + "/events", is
\* one where the stub server takes events: a POST to it is not answered 404.
C39_SourceIsServed ==
    Listening =>
        \A type \in {Published, RequestCreated}, draw \in RandomDraws :
            LET source == TestEvent(type, Defaults(callerSetting), val.pathPrefex).source
                request == Request("POST", PathTo(source), NoAuthorization,
                                   CloudEventsJson, NoBody)
            IN  /\ source[1] = setting.contextPath
                /\ Dispatch([FreeSlot EXCEPT !.in = request], now, setting, draw).status
                     # 404


\* C34: no step of validate or of the stub server changes a field of the
\* setting validate was called with, and none changes the setting the stub
\* server was constructed with: the defaults go to locals.
C34_SettingsNeverWritten ==
    [][/\ callerSetting' = callerSetting
       /\ setting # NoSetting => setting' = setting]_vars

\* C34 witness: validate has returned after the assertion engine, the stub
\* server ran under the default address, and the caller's setting still has
\* no stubContextPath and no filterSupport
C34_Witness ==
    /\ val.pc = "returned"
    /\ val.engineStarted
    /\ val.stubStarted
    /\ setting.contextPath = "http://localhost:3000"
    /\ callerSetting.stubContextPath = NULL
    /\ callerSetting.filterSupport = NULL

=============================================================================
